---------------------------- MODULE Spec2Model ----------------------------
(***************************************************************************)
(* A model of the multithreaded caching / rate-limiting HTTP proxy of      *)
(* src/proxy_server.py: the acceptor loop (ProxyServer.start), the worker  *)
(* threads and the executor, the per-connection request handler, the       *)
(* Redis-backed CacheManager and RateLimiter, the RequestFilter and the    *)
(* Statistics counters.                                                    *)
(*                                                                         *)
(* Text is modelled as sequences of one-character strings so that          *)
(* lower() and the substring test are computed, and bytes as sequences of  *)
(* integers 0..255 so that the base64 transport encoding is computed.      *)
(***************************************************************************)
EXTENDS Integers, Sequences, FiniteSets, TLC

(***************************************************************************)
(* Bounds of the model.  The configuration values of DEFAULT_CONFIG are    *)
(* scaled down: they are configuration, not fixed by the program.          *)
(***************************************************************************)
MaxConns == 2

MaxTime == 2

RATE_LIMIT_REQUESTS == 1

RATE_LIMIT_WINDOW == 2

CACHE_EXPIRATION == 1

THREAD_POOL_SIZE == 2

REQUEST_QUEUE_SIZE == 2

Conns == 1 .. MaxConns

None == "None"

(***************************************************************************)
(* Text helpers: str.lower() and the `in` substring test of Python.        *)
(***************************************************************************)
LowerChar(ch) ==
    CASE ch = "A" -> "a"
      [] ch = "B" -> "b"
      [] ch = "C" -> "c"
      [] ch = "D" -> "d"
      [] ch = "E" -> "e"
      [] ch = "F" -> "f"
      [] ch = "G" -> "g"
      [] ch = "H" -> "h"
      [] ch = "I" -> "i"
      [] ch = "J" -> "j"
      [] ch = "K" -> "k"
      [] ch = "L" -> "l"
      [] ch = "M" -> "m"
      [] ch = "N" -> "n"
      [] ch = "O" -> "o"
      [] ch = "P" -> "p"
      [] ch = "Q" -> "q"
      [] ch = "R" -> "r"
      [] ch = "S" -> "s"
      [] ch = "T" -> "t"
      [] ch = "U" -> "u"
      [] ch = "V" -> "v"
      [] ch = "W" -> "w"
      [] ch = "X" -> "x"
      [] ch = "Y" -> "y"
      [] ch = "Z" -> "z"
      [] OTHER -> ch

Lower(s) == [i \in 1 .. Len(s) |-> LowerChar(s[i])]

IsSubstring(sub, s) ==
    \E i \in 0 .. (Len(s) - Len(sub)) :
        \A j \in 1 .. Len(sub) : s[i + j] = sub[j]


(***************************************************************************)
(* Python dict helpers.  A dict is a function whose domain is its key set. *)
(***************************************************************************)
EmptyDict == [k \in {} |-> None]

DictGet(d, k, default) == IF k \in DOMAIN d THEN d[k] ELSE default

DictDel(d, k) == [x \in (DOMAIN d) \ {k} |-> d[x]]

DictSet(d, k, v) == [x \in (DOMAIN d) \cup {k} |-> IF x = k THEN v ELSE d[x]]

(***************************************************************************)
(* base64.b64encode / base64.b64decode on byte sequences.  A base64        *)
(* character is represented by its 6-bit value, the padding '=' by B64Pad. *)
(***************************************************************************)
B64Pad == 64

RECURSIVE b64encode(_)
b64encode(b) ==
    IF Len(b) = 0 THEN <<>>
    ELSE IF Len(b) = 1 THEN
        << b[1] \div 4, (b[1] % 4) * 16, B64Pad, B64Pad >>
    ELSE IF Len(b) = 2 THEN
        << b[1] \div 4, (b[1] % 4) * 16 + (b[2] \div 16),
           (b[2] % 16) * 4, B64Pad >>
    ELSE
        << b[1] \div 4, (b[1] % 4) * 16 + (b[2] \div 16),
           (b[2] % 16) * 4 + (b[3] \div 64), b[3] % 64 >>
        \o b64encode(SubSeq(b, 4, Len(b)))

\* a decoder that takes the padding for data
RECURSIVE b64decode_padding_as_data(_)
b64decode_padding_as_data(s) ==
    IF Len(s) < 4 THEN <<>>
    ELSE << s[1] * 4 + (s[2] \div 16),
            ((s[2] % 16) * 16 + (s[3] \div 4)) % 256,
            ((s[3] % 4) * 64 + s[4]) % 256 >>
         \o b64decode_padding_as_data(SubSeq(s, 5, Len(s)))

RECURSIVE b64decode(_)
b64decode(s) ==
    IF Len(s) < 4 THEN <<>>
    ELSE
        LET b1 == s[1] * 4 + (s[2] \div 16)
            b2 == (s[2] % 16) * 16 + (s[3] \div 4)
            b3 == (s[3] % 4) * 64 + s[4]
        IN  IF s[3] = B64Pad THEN << b1 >>
            ELSE IF s[4] = B64Pad THEN << b1, b2 >>
            ELSE << b1, b2, b3 >> \o b64decode(SubSeq(s, 5, Len(s)))

(***************************************************************************)
(* json.dumps / json.loads of a dict with string keys: the text is the     *)
(* sequence of its <<key, value>> members; a nested dict (the response     *)
(* headers) is serialised the same way.                                    *)
(***************************************************************************)
RECURSIVE DictMembers(_)
DictMembers(d) ==
    IF DOMAIN d = {} THEN <<>>
    ELSE LET k == CHOOSE x \in DOMAIN d : TRUE
         IN  << <<k, d[k]>> >> \o DictMembers(DictDel(d, k))

MembersDict(m) ==
    [k \in {m[i][1] : i \in DOMAIN m} |->
        m[CHOOSE i \in DOMAIN m :
            /\ m[i][1] = k
            /\ \A j \in DOMAIN m : m[j][1] = k => j <= i][2]]

json_dumps(d) ==
    DictMembers([k \in DOMAIN d |->
        IF k = "headers" THEN DictMembers(d[k]) ELSE d[k]])

json_loads(text) ==
    LET top == MembersDict(text)
    IN  [k \in DOMAIN top |->
            IF k = "headers" THEN MembersDict(top[k]) ELSE top[k]]

\* json.loads raises JSONDecodeError on a text that is not a sequence of
\* complete members
JSONDecodeError(text) == \E i \in DOMAIN text : Len(text[i]) # 2

(***************************************************************************)
(* Inputs: texts, client requests, origin outcomes, configurations.        *)
(***************************************************************************)
T_x == << "/", "x" >>

T_ads == << "/", "A", "d", "s" >>

T_stats == << "/", "p", "r", "o", "x", "y", "-", "s", "t", "a", "t", "s" >>

R_ads == << "a", "d", "s" >>

R_stats == << "s", "t", "a", "t", "s" >>

H_accept == << "A", "c", "c", "e", "p", "t" >>

V_no_store == << "n", "o", "-", "s", "t", "o", "r", "e" >>

V_no_cache == << "n", "o", "-", "c", "a", "c", "h", "e" >>

\* the request read from the client socket: kind "ok" is a well-formed
\* request, "malformed" a request line that does not split in three tokens,
\* "empty" a peer that closes without sending, "timeout" a read deadline
Req(kind, method, path, headers, body) ==
    [kind |-> kind, method |-> method, path |-> path,
     headers |-> headers, body |-> body]

\* an absent body and an empty body are both << >> (both are falsy wherever
\* the program tests the body)
GET_x == Req("ok", "GET", T_x, EmptyDict, << >>)

POST_x == Req("ok", "POST", T_x, EmptyDict, << 1 >>)

GET_ads == Req("ok", "GET", T_ads, EmptyDict, << >>)

GET_stats == Req("ok", "GET", T_stats, EmptyDict, << >>)

NoReq == Req("none", "", << >>, EmptyDict, << >>)

\* str.split() without argument: the maximal runs of non-whitespace
Whitespace == { " ", "\t" }

RECURSIVE split(_)
split(s) ==
    IF s = << >> THEN << >>
    ELSE IF Head(s) \in Whitespace THEN split(Tail(s))
    ELSE LET stops == { i \in DOMAIN s : s[i] \in Whitespace }
             n == IF stops = {} THEN Len(s) + 1
                  ELSE CHOOSE i \in stops : \A j \in stops : i <= j
         IN  << SubSeq(s, 1, n - 1) >> \o split(SubSeq(s, n, Len(s)))

\* the method token as the string the program compares with "GET"
RECURSIVE Join(_)
Join(chars) ==
    IF chars = << >> THEN "" ELSE Head(chars) \o Join(Tail(chars))

\* a request line of two tokens taken as a request without a version
ParseRequest_default_version(request_line, headers, body) ==
    LET tokens == split(request_line)
    IN  IF Len(tokens) \notin { 2, 3 }
        THEN Req("malformed", "", << >>, EmptyDict, << >>)
        ELSE Req("ok", Join(tokens[1]), tokens[2], headers, body)

\* _handle_client_request: method, path, version = request_line.split()
ParseRequest(request_line, headers, body) ==
    LET tokens == split(request_line)
    IN  IF Len(tokens) # 3
        THEN Req("malformed", "", << >>, EmptyDict, << >>)
        ELSE Req("ok", Join(tokens[1]), tokens[2], headers, body)

\* request lines: GET /x HTTP/1.1
L_get_x ==
    << "G", "E", "T", " ", "/", "x", " ", "H", "T", "T", "P", "/", "1", ".",
       "1" >>

\* two tokens
L_no_version == << "G", "E", "T", " ", "/", "x" >>

RequestLines ==
    { L_get_x,
      << " ", "G", "E", "T", " ", " ", "/", "x", "\t", "H", "T", "T", "P", "/",
         "1", ".", "1", " " >>,
      L_no_version, L_get_x \o << " ", "x" >>, << >> }

ClientIPs == { "10.0.0.1", "10.0.0.2" }

\* what session.request() can produce: a response, requests.Timeout, or
\* another requests.RequestException
OriginResponse(status, headers, content) ==
    [kind |-> "response", status_code |-> status,
     headers |-> headers, content |-> content]

T_gzip == << "g", "z", "i", "p" >>

T_text == << "t", "e", "x", "t" >>

V_text_plain == << "t", "e", "x", "t", "/", "p", "l", "a", "i", "n" >>

H_accept_encoding ==
    << "A", "c", "c", "e", "p", "t", "-", "E", "n", "c", "o", "d", "i", "n",
       "g" >>

ContentType == "Content-Type" :> V_text_plain

O_timeout == [kind |-> "timeout"]

O_error == [kind |-> "error"]

O_hello == OriginResponse(200, ContentType, << 104, 101, 108, 108, 111 >>)

O_500 == OriginResponse(500, ContentType, << 101, 0 >>)

\* base URLs of backend servers
B_a == << "h", "t", "t", "p", ":", "/", "/", "a" >>

StartsWith(s, prefix) ==
    Len(s) >= Len(prefix) /\ SubSeq(s, 1, Len(prefix)) = prefix

\* requests.status_codes._codes: the status codes that have a reason phrase
KnownStatusCodes ==
    (200 .. 208) \cup (300 .. 308) \cup (400 .. 418) \cup (500 .. 511)
    \cup { 100, 101, 102, 103, 122, 226, 421, 422, 423, 424, 425, 426, 428,
           429, 431, 444, 449, 450, 451, 499 }

(***************************************************************************)
(* State.                                                                  *)
(***************************************************************************)
VARIABLES
    now,              \* int(time.time())
    running,          \* ProxyServer.running
    filter_rules,     \* RequestFilter._filter_rules (REQUEST_FILTERS)
    backend_servers,  \* ConnectionPool._backend_servers (BACKEND_SERVERS)
    enable_compression, \* config["ENABLE_COMPRESSION"]
    thread_pool_size, \* ProxyServer.thread_pool_size
    request_queue_size, \* ProxyServer.request_queue_size
    workers,          \* number of the threads of ProxyServer.workers that
                      \* are in their loop
    stats,            \* Statistics._stats
    zsets,            \* Redis sorted sets rate_limit:<ip>
    cache,            \* Redis string keys: cache key -> [value, expires]
    put_log,          \* history: response_data last written under a key
    request_queue,    \* ProxyServer.request_queue
    executor_queue,   \* work queue of ProxyServer.thread_pool
    acceptor,         \* position of the accept loop of start()
    conn,             \* per accepted connection: socket and handler state
    origin_requests,  \* history: requests received by the origins
    returned,         \* value returned by the last direct call of a method
    limiter_calls     \* history: per client, the seconds of the direct calls
                      \* of is_rate_limited

vars == << now, running, filter_rules, backend_servers, enable_compression,
           thread_pool_size, request_queue_size, workers,
           stats, zsets, cache,
           put_log, request_queue, executor_queue, acceptor, conn,
           origin_requests, returned, limiter_calls >>

\* the configuration and the results of the direct calls
config == << filter_rules, backend_servers, enable_compression,
             thread_pool_size, request_queue_size, returned, limiter_calls >>

\* what no step of the running server changes
static == << config, workers >>

(***************************************************************************)
(* Statistics                                                              *)
(***************************************************************************)
StatisticsInit ==
    [requests_total |-> 0, requests_success |-> 0, requests_error |-> 0,
     bytes_transferred |-> 0, cache_hits |-> 0, cache_misses |-> 0,
     active_connections |-> 0, rate_limited_requests |-> 0,
     request_methods |->
        [m \in { "GET", "POST", "PUT", "DELETE", "OTHER" } |-> 0],
     start_time |-> 0]

\* the value subtracted instead of added
increment_subtracting(s, stat, value) ==
    IF stat \in DOMAIN s THEN [s EXCEPT ![stat] = @ - value] ELSE s

increment(s, stat, value) ==
    IF stat \in DOMAIN s THEN [s EXCEPT ![stat] = @ + value] ELSE s

decrement(s, stat, value) ==
    IF stat \in DOMAIN s THEN [s EXCEPT ![stat] = @ - value] ELSE s

update_method_stat(s, method) ==
    IF method \in DOMAIN s.request_methods
    THEN [s EXCEPT !.request_methods[method] = @ + 1]
    ELSE [s EXCEPT !.request_methods["OTHER"] = @ + 1]

\* the ratio is kept as the pair <<numerator, denominator>>
get_stats(s) ==
    [k \in (DOMAIN s) \cup { "uptime_seconds", "cache_hit_ratio" } |->
        IF k = "uptime_seconds" THEN now - s.start_time
        ELSE IF k = "cache_hit_ratio" THEN
            IF s.cache_hits + s.cache_misses > 0
            THEN << s.cache_hits, s.cache_hits + s.cache_misses >>
            ELSE << 0, 1 >>
        ELSE s[k]]

(***************************************************************************)
(* RateLimiter.is_rate_limited: the pipeline applied to the sorted set of  *)
(* the client.  A member is str(current_time), its score current_time, so  *)
(* the set is represented by the set of its scores.                        *)
(***************************************************************************)
NoZset == [members |-> {}, expires |-> -1]

zremrangebyscore(z, lo, hi) ==
    [z EXCEPT !.members = { m \in @ : ~ (lo <= m /\ m <= hi) }]

zadd(z, member) == [z EXCEPT !.members = @ \cup { member }]

zcard(z) == Cardinality(z.members)

expire(z, ttl) == [z EXCEPT !.expires = now + ttl]

\* a pipeline that sets the time to live only on a key that has none
RateLimiterPipeline_expire_once(z) ==
    LET added == zadd(zremrangebyscore(z, 0, now - RATE_LIMIT_WINDOW), now)
    IN  IF z.expires = -1 THEN expire(added, RATE_LIMIT_WINDOW) ELSE added

RateLimiterPipeline(z) ==
    expire(zadd(zremrangebyscore(z, 0, now - RATE_LIMIT_WINDOW), now),
           RATE_LIMIT_WINDOW)

\* a client limited as soon as it reaches the limit
is_rate_limited_at_limit(z) ==
    zcard(RateLimiterPipeline(z)) >= RATE_LIMIT_REQUESTS

is_rate_limited(z) == zcard(RateLimiterPipeline(z)) > RATE_LIMIT_REQUESTS

(***************************************************************************)
(* CacheManager                                                            *)
(***************************************************************************)
CacheHeaderNames ==
    { << "a", "c", "c", "e", "p", "t" >>,
      << "a", "c", "c", "e", "p", "t", "-", "l", "a", "n", "g", "u", "a",
         "g", "e" >>,
      << "a", "c", "c", "e", "p", "t", "-", "e", "n", "c", "o", "d", "i",
         "n", "g" >> }

\* a key made of every header of the request
generate_cache_key_all_headers(method, url, headers, body) ==
    LET key_components ==
            [method |-> method, url |-> url, headers |-> headers]
    IN  IF method # "GET" /\ body # << >>
        THEN DictSet(key_components, "body", body)
        ELSE key_components

\* the md5 digest of the canonical JSON text is represented by the
\* components that are hashed (the digest is taken to be collision free)
generate_cache_key(method, url, headers, body) ==
    LET cache_headers ==
            [k \in { Lower(h) : h \in DOMAIN headers } \cap CacheHeaderNames
                |-> headers[CHOOSE h \in DOMAIN headers : Lower(h) = k]]
        key_components ==
            [method |-> method, url |-> url, headers |-> cache_headers]
    IN  IF method # "GET" /\ body # << >>
        THEN DictSet(key_components, "body", body)
        ELSE key_components

\* get_cached_response: the JSON text decoded, content_base64 replaced by
\* the decoded content
CachedResponse(cached_data) ==
    LET cached_response == json_loads(cached_data)
    IN  IF "content_base64" \in DOMAIN cached_response
        THEN DictDel(DictSet(cached_response, "content",
                             b64decode(cached_response["content_base64"])),
                     "content_base64")
        ELSE cached_response

\* a lookup under a key that includes the time of the request
get_cached_response_never_found(method, url, headers, body) == EmptyDict

\* get_cached_response: the value returned, EmptyDict standing for None
\* (both are falsy for the caller)
get_cached_response(method, url, headers, body) ==
    LET cache_key == generate_cache_key(method, url, headers, body)
    IN  IF method # "GET" THEN EmptyDict
        ELSE IF cache_key \in DOMAIN cache
        THEN IF JSONDecodeError(cache[cache_key].value) THEN EmptyDict
             ELSE CachedResponse(cache[cache_key].value)
        ELSE EmptyDict

\* get_cached_response: the statistics after the call
get_cached_response_stats(method, url, headers, body) ==
    LET cache_key == generate_cache_key(method, url, headers, body)
    IN  IF method # "GET" THEN stats
        ELSE IF cache_key \in DOMAIN cache
        THEN IF JSONDecodeError(cache[cache_key].value)
             THEN increment(increment(stats, "cache_hits", 1),
                            "cache_misses", 1)
             ELSE increment(stats, "cache_hits", 1)
        ELSE increment(stats, "cache_misses", 1)

\* cache_response: the text written with SETEX
CacheData(response_data) ==
    json_dumps(
        IF "content" \in DOMAIN response_data
        THEN DictDel(DictSet(response_data, "content_base64",
                             b64encode(response_data["content"])),
                     "content")
        ELSE response_data)

\* the admission rule without the test of the method
CacheAdmits_any_method(method, response_data) ==
    /\ ~ (DictGet(response_data, "status_code", 500) >= 400)
    /\ LET cache_control ==
               DictGet(DictGet(response_data, "headers", EmptyDict),
                       "Cache-Control", << >>)
       IN  ~ (IsSubstring(V_no_store, cache_control)
              \/ IsSubstring(V_no_cache, cache_control))

\* cache_response: whether the call writes the entry
CacheAdmits(method, response_data) ==
    /\ method = "GET"
    /\ ~ (DictGet(response_data, "status_code", 500) >= 400)
    /\ LET cache_control ==
               DictGet(DictGet(response_data, "headers", EmptyDict),
                       "Cache-Control", << >>)
       IN  ~ (IsSubstring(V_no_store, cache_control)
              \/ IsSubstring(V_no_cache, cache_control))

\* the entry written with twice the configured time to live
cache_response_long_lived(method, url, headers, response_data, body) ==
    IF CacheAdmits(method, response_data)
    THEN DictSet(cache, generate_cache_key(method, url, headers, body),
                 [value |-> CacheData(response_data),
                  expires |-> now + 2 * CACHE_EXPIRATION])
    ELSE cache

\* cache_response: the store after the call
cache_response(method, url, headers, response_data, body) ==
    IF CacheAdmits(method, response_data)
    THEN DictSet(cache, generate_cache_key(method, url, headers, body),
                 [value |-> CacheData(response_data),
                  expires |-> now + CACHE_EXPIRATION])
    ELSE cache

\* history: the response_data last written under each key
put_logged(method, url, headers, response_data, body) ==
    IF CacheAdmits(method, response_data)
    THEN DictSet(put_log, generate_cache_key(method, url, headers, body),
                 response_data)
    ELSE put_log

\* the keys rate_limit:<ip> present in the database
RateLimitKeys == { ip \in ClientIPs : zsets[ip] # NoZset }

\* invalidate_cache: the test of one key of the scan
UrlMatches(cache_key, url_pattern) ==
    /\ ~ JSONDecodeError(cache[cache_key].value)
    /\ IsSubstring(url_pattern,
                   DictGet(json_loads(cache[cache_key].value), "url", << >>))

\* invalidate_cache: the string keys after the call.  scan_iter("*") yields
\* every key of the database in an order of its own; scanned are the string
\* keys it yields before the loop ends.  An empty pattern is falsy, as None.
invalidate_cache(url_pattern, scanned) ==
    IF url_pattern # << >>
    THEN [k \in { x \in DOMAIN cache :
                    ~ (x \in scanned /\ UrlMatches(x, url_pattern)) }
            |-> cache[k]]
    ELSE EmptyDict

(***************************************************************************)
(* ConnectionPool._select_backend_server: random.choice, any of them       *)
(***************************************************************************)
select_backend_server == { backend_servers[i] : i \in DOMAIN backend_servers }

(***************************************************************************)
(* RequestFilter.should_filter                                             *)
(***************************************************************************)
\* the rules compared without lower-casing
should_filter_case_sensitive(url, headers) ==
    IF Len(filter_rules) = 0 THEN FALSE
    ELSE \E i \in 1 .. Len(filter_rules) :
            /\ filter_rules[i] # << >>
            /\ IsSubstring(filter_rules[i], url)

\* the loop without the test that skips an empty rule
should_filter_matching_empty_rule(url, headers) ==
    IF Len(filter_rules) = 0 THEN FALSE
    ELSE \E i \in 1 .. Len(filter_rules) :
            IsSubstring(Lower(filter_rules[i]), Lower(url))

should_filter(url, headers) ==
    IF Len(filter_rules) = 0 THEN FALSE
    ELSE \E i \in 1 .. Len(filter_rules) :
            /\ filter_rules[i] # << >>
            /\ IsSubstring(Lower(filter_rules[i]), Lower(url))

(***************************************************************************)
(* Replies written to the client socket.                                   *)
(***************************************************************************)
\* _send_error_response
ErrorReply(status_code, reason) ==
    [kind |-> "error", status_code |-> status_code, reason |-> reason,
     headers |-> ("Content-Type" :> "text/html") @@ ("Connection" :> "close"),
     body |-> << >>]

\* _send_response_to_client compresses content longer than this
CompressionThreshold == 1024

\* gzip.compress.  The DEFLATE stream is modelled by the run-length coding
\* of the content (one <<byte, length>> pair per run), between the magic
\* bytes of the header and the ISIZE field of the trailer (the length of
\* the content, here always below 2^32).
gzip_compress(content) ==
    LET starts == { i \in DOMAIN content :
                      i = 1 \/ content[i] # content[i - 1] }
        start(n) == CHOOSE i \in starts :
                       Cardinality({ j \in starts : j <= i }) = n
        next(n) == IF n = Cardinality(starts) THEN Len(content) + 1
                   ELSE start(n + 1)
    IN  << 31, 139 >>
        \o [n \in 1 .. Cardinality(starts) |->
               << content[start(n)], next(n) - start(n) >>]
        \o << Len(content) >>

\* _send_response_to_client: the test that decides the compression;
\* headers are the headers of response_data
ShouldCompress(headers, content) ==
    /\ enable_compression
    /\ Len(content) > CompressionThreshold
    /\ IsSubstring(T_gzip, DictGet(headers, "Accept-Encoding", << >>))
    /\ IsSubstring(T_text, DictGet(headers, "Content-Type", << >>))

\* _send_response_to_client: the replies written (none when the status code
\* has no reason phrase: the KeyError is logged and nothing is sent)
ResponseReplies(response_data) ==
    LET status_code == DictGet(response_data, "status_code", 200)
        headers == DictGet(response_data, "headers", EmptyDict)
        content == DictGet(response_data, "content", << >>)
    IN  IF status_code \notin KnownStatusCodes THEN << >>
        ELSE IF ShouldCompress(headers, content)
        THEN << [kind |-> "response", status_code |-> status_code,
                 reason |-> "canonical",
                 headers |-> DictSet(DictSet(headers, "Content-Encoding",
                                             T_gzip),
                                     "Content-Length",
                                     Len(gzip_compress(content))),
                 body |-> gzip_compress(content)] >>
        ELSE << [kind |-> "response", status_code |-> status_code,
                 reason |-> "canonical",
                 headers |-> DictSet(headers, "Content-Length", Len(content)),
                 body |-> content] >>

\* what sendall wrote of a reply when it raised an error after a part of it
Partial(reply) == [reply EXCEPT !.kind = "partial"]

\* _handle_stats_request: the reply built by json.dumps from the dict that
\* get_stats returned.  dict.copy() is shallow: the copy holds the values
\* of the counters and a reference to the one request_methods dict, which
\* json.dumps reads when it runs
StatsReply(stats_copy) ==
    [kind |-> "stats", status_code |-> 200, reason |-> "OK",
     headers |-> "Content-Type" :> "application/json",
     body |-> [stats_copy EXCEPT
                  !["request_methods"] = stats.request_methods]]

(***************************************************************************)
(* Connections.  pc is the position of the connection: "idle" (not yet     *)
(* accepted), "accepted" (held by the acceptor), "queued", "dequeued"      *)
(* (held by a worker thread), "submitted" (in the executor), the handler   *)
(* positions "recv", "method", "stats", "stats_send", "lookup", "forward", *)
(* "store", "send", "close", and "closed".  "abandoned" is a socket that   *)
(* no thread holds any more and that was not closed.  rate_check records   *)
(* the outcome                                                             *)
(* of the accept-time rate check, sent the replies written to the socket,  *)
(* store_error the Redis call of the handler that raised an error, origin  *)
(* the kind of outcome of the request to the origin, close_error whether   *)
(* client_socket.close() raised an error.                                  *)
(***************************************************************************)
ConnInit ==
    [pc |-> "idle", req |-> NoReq, rate_check |-> "none",
     response_data |-> EmptyDict, sent |-> << >>, store_error |-> "none",
     origin |-> "none", close_error |-> FALSE]

\* a closed socket: the request and the handler's locals are gone
ConnClosed(c) == [ConnInit EXCEPT !.pc = "closed",
                                  !.rate_check = conn[c].rate_check]

HandlerPcs ==
    { "recv", "method", "stats", "stats_send", "lookup", "forward", "store",
      "send", "close" }

Handling == { c \in Conns : conn[c].pc \in HandlerPcs }

InitServer(filter_configs, backend_configs, compressions, pools, queues) ==
    /\ now = 0
    /\ running = TRUE
    /\ filter_rules \in filter_configs
    /\ backend_servers \in backend_configs
    /\ enable_compression \in compressions
    /\ thread_pool_size \in pools
    /\ request_queue_size \in queues
    /\ workers = thread_pool_size
    /\ stats = StatisticsInit
    /\ zsets = [ip \in ClientIPs |-> NoZset]
    /\ cache = EmptyDict
    /\ put_log = EmptyDict
    /\ request_queue = << >>
    /\ executor_queue = << >>
    /\ acceptor = [pc |-> "accept", c |-> 0]
    /\ conn = [c \in Conns |-> ConnInit]
    /\ origin_requests = 0
    /\ returned = [call |-> "none"]
    /\ limiter_calls = [ip \in ClientIPs |-> {}]

\* the pool and the queue of the sizes of the configuration
InitWith(filter_configs, backend_configs, compression_configs) ==
    InitServer(filter_configs, backend_configs, compression_configs,
               { THREAD_POOL_SIZE }, { REQUEST_QUEUE_SIZE })

\* ENABLE_COMPRESSION as in DEFAULT_CONFIG
InitOn(filter_configs, backend_configs) ==
    InitWith(filter_configs, backend_configs, { TRUE })

(***************************************************************************)
(* The clock, and Redis key expiry.                                        *)
(***************************************************************************)
TickUntil(limit) ==
    /\ now < limit
    /\ now' = now + 1
    /\ cache' = [k \in { x \in DOMAIN cache : cache[x].expires > now + 1 }
                    |-> cache[k]]
    /\ put_log' = [k \in { x \in DOMAIN put_log :
                                cache[x].expires > now + 1 }
                    |-> put_log[k]]
    /\ zsets' = [ip \in ClientIPs |->
                    IF zsets[ip].expires # -1 /\ zsets[ip].expires <= now + 1
                    THEN NoZset ELSE zsets[ip]]
    /\ UNCHANGED << static, running, stats, request_queue,
                    executor_queue, acceptor, conn, origin_requests >>

Tick == TickUntil(MaxTime)

(***************************************************************************)
(* ProxyServer.start: the accept loop.                                     *)
(***************************************************************************)
\* the rate-limited branch without its `continue`: the closed socket is
\* put on the queue
RejectLimited_enqueued(c) ==
    /\ stats' = increment(stats, "rate_limited_requests", 1)
    /\ conn' = [conn EXCEPT ![c].pc = "closed", ![c].rate_check = "limited"]
    /\ request_queue' = Append(request_queue, c)
    /\ UNCHANGED acceptor

\* the rate-limited branch: the counter, close(), continue
RejectLimited(c) ==
    /\ stats' = increment(stats, "rate_limited_requests", 1)
    /\ conn' = [conn EXCEPT ![c].pc = "closed", ![c].rate_check = "limited"]
    /\ UNCHANGED << acceptor, request_queue >>

\* accept() and the rate check; store_fails is a Redis error raised by
\* pipe.execute(), caught by `except Exception` of the loop
Accept(c, ip, store_fails) ==
    /\ running
    /\ acceptor.pc = "accept"
    /\ conn[c].pc = "idle"
    /\ \A d \in Conns : d < c => conn[d].pc # "idle"
    /\ IF store_fails
       THEN /\ conn' = [conn EXCEPT ![c].pc = "abandoned",
                                    ![c].rate_check = "error"]
            /\ UNCHANGED << zsets, stats, acceptor, request_queue >>
       ELSE /\ zsets' = [zsets EXCEPT ![ip] = RateLimiterPipeline(@)]
            /\ IF is_rate_limited(zsets[ip])
               THEN RejectLimited(c)
               ELSE /\ conn' = [conn EXCEPT ![c].pc = "accepted",
                                            ![c].rate_check = "ok"]
                    /\ acceptor' = [pc |-> "put", c |-> c]
                    /\ UNCHANGED << stats, request_queue >>
    /\ UNCHANGED << static, now, running, cache, put_log, executor_queue,
                    origin_requests >>

\* request_queue.put(): blocks while the queue is full
Put ==
    /\ acceptor.pc = "put"
    /\ Len(request_queue) < request_queue_size
    /\ request_queue' = Append(request_queue, acceptor.c)
    /\ conn' = [conn EXCEPT ![acceptor.c].pc = "queued"]
    /\ acceptor' = [acceptor EXCEPT !.pc = "incr"]
    /\ UNCHANGED << static, now, running, stats, zsets, cache, put_log,
                    executor_queue, origin_requests >>

\* statistics.increment("active_connections")
IncrActive ==
    /\ acceptor.pc = "incr"
    /\ stats' = increment(stats, "active_connections", 1)
    /\ acceptor' = [pc |-> "accept", c |-> 0]
    /\ UNCHANGED << static, now, running, zsets, cache, put_log,
                    request_queue, executor_queue, conn, origin_requests >>

(***************************************************************************)
(* ProxyServer.stop, run by the thread of start() when it is interrupted:  *)
(* the accept loop is left wherever it was, with the socket it held.  The  *)
(* worker threads and the pool threads run between the statements of       *)
(* stop(), which is one action per statement.                              *)
(***************************************************************************)
\* self.running = False, server_socket.close()
Stop ==
    /\ running
    /\ running' = FALSE
    /\ acceptor' = [pc |-> "drain", c |-> 0]
    /\ conn' = [c \in Conns |->
                  IF conn[c].pc = "accepted"
                  THEN [conn[c] EXCEPT !.pc = "abandoned"]
                  ELSE conn[c]]
    /\ UNCHANGED << static, now, stats, zsets, cache, put_log,
                    request_queue, executor_queue, origin_requests >>

\* one turn of the loop that clears the queue: get_nowait(), close()
StopDrain ==
    /\ acceptor.pc = "drain"
    /\ request_queue # << >>
    /\ request_queue' = Tail(request_queue)
    /\ conn' = [conn EXCEPT ![Head(request_queue)]
                                = ConnClosed(Head(request_queue))]
    /\ UNCHANGED << static, now, running, stats, zsets, cache, put_log,
                    executor_queue, acceptor, origin_requests >>

\* the queue is found empty: thread_pool.shutdown(wait=False)
StopShutdown ==
    /\ acceptor.pc = "drain"
    /\ request_queue = << >>
    /\ acceptor' = [pc |-> "stopped", c |-> 0]
    /\ UNCHANGED << static, now, running, stats, zsets, cache, put_log,
                    request_queue, executor_queue, conn, origin_requests >>

(***************************************************************************)
(* ProxyServer._worker_thread and the executor.                            *)
(***************************************************************************)
\* request_queue.get(timeout=1), by a worker that found running true when
\* it entered the loop
WorkerGet ==
    /\ request_queue # << >>
    /\ Cardinality({ c \in Conns : conn[c].pc = "dequeued" }) < workers
    /\ request_queue' = Tail(request_queue)
    /\ conn' = [conn EXCEPT ![Head(request_queue)].pc = "dequeued"]
    /\ UNCHANGED << static, now, running, stats, zsets, cache, put_log,
                    executor_queue, acceptor, origin_requests >>

\* thread_pool.submit(): raises RuntimeError once the pool is shut down,
\* which the worker logs and drops; the worker then tests running and
\* leaves its loop when the server is stopped
WorkerSubmit(c) ==
    /\ conn[c].pc = "dequeued"
    /\ IF acceptor.pc # "stopped"
       THEN /\ executor_queue' = Append(executor_queue, c)
            /\ conn' = [conn EXCEPT ![c].pc = "submitted"]
       ELSE /\ conn' = [conn EXCEPT ![c].pc = "abandoned"]
            /\ UNCHANGED executor_queue
    /\ workers' = IF running THEN workers ELSE workers - 1
    /\ UNCHANGED << config, now, running, stats, zsets, cache, put_log,
                    request_queue, acceptor, origin_requests >>

\* a worker without a connection finds running false (after queue.Empty
\* or at the test of its loop) and returns
WorkerExit ==
    /\ ~ running
    /\ Cardinality({ c \in Conns : conn[c].pc = "dequeued" }) < workers
    /\ workers' = workers - 1
    /\ UNCHANGED << config, now, running, stats, zsets, cache, put_log,
                    request_queue, executor_queue, acceptor, conn,
                    origin_requests >>

\* an executor that starts a work item whether or not a pool thread is free
ExecutorStart_unbounded ==
    /\ executor_queue # << >>
    /\ executor_queue' = Tail(executor_queue)
    /\ conn' = [conn EXCEPT ![Head(executor_queue)].pc = "recv"]
    /\ UNCHANGED << static, now, running, stats, zsets, cache, put_log,
                    request_queue, acceptor, origin_requests >>

\* a pool thread takes the next work item
ExecutorStart ==
    /\ executor_queue # << >>
    /\ Cardinality(Handling) < thread_pool_size
    /\ executor_queue' = Tail(executor_queue)
    /\ conn' = [conn EXCEPT ![Head(executor_queue)].pc = "recv"]
    /\ UNCHANGED << static, now, running, stats, zsets, cache, put_log,
                    request_queue, acceptor, origin_requests >>

(***************************************************************************)
(* ProxyServer._handle_client_request, one action per position.            *)
(***************************************************************************)

\* the receive loop is skipped when the server is stopped: no data, return
RecvStopped(c) ==
    /\ conn[c].pc = "recv"
    /\ ~ running
    /\ conn' = [conn EXCEPT ![c].pc = "close"]
    /\ UNCHANGED << static, now, running, stats, zsets, cache, put_log,
                    request_queue, executor_queue, acceptor,
                    origin_requests >>

\* recv, the request line and the headers, statistics.increment
Recv(c, req) ==
    /\ conn[c].pc = "recv"
    /\ running
    /\ IF req.kind = "empty"
       THEN /\ conn' = [conn EXCEPT ![c].pc = "close", ![c].req = req]
            /\ UNCHANGED stats
       ELSE IF req.kind = "timeout"
       THEN /\ conn' = [conn EXCEPT ![c].pc = "close", ![c].req = req,
                            ![c].sent = Append(@,
                                ErrorReply(408, "Request Timeout"))]
            /\ UNCHANGED stats
       ELSE IF req.kind = "malformed"
       THEN /\ conn' = [conn EXCEPT ![c].pc = "close", ![c].req = req,
                            ![c].sent = Append(@,
                                ErrorReply(400, "Bad Request"))]
            /\ UNCHANGED stats
       ELSE /\ conn' = [conn EXCEPT ![c].pc = "method", ![c].req = req]
            /\ stats' = increment(stats, "requests_total", 1)
    /\ UNCHANGED << static, now, running, zsets, cache, put_log,
                    request_queue, executor_queue, acceptor,
                    origin_requests >>

\* statistics.update_method_stat, then the filter and the dispatch on the
\* path and the method
Method(c) ==
    /\ conn[c].pc = "method"
    /\ stats' = update_method_stat(stats, conn[c].req.method)
    /\ IF should_filter(conn[c].req.path, conn[c].req.headers)
       THEN conn' = [conn EXCEPT ![c].pc = "close",
                        ![c].sent = Append(@, ErrorReply(403, "Forbidden"))]
       ELSE IF conn[c].req.path = T_stats
       THEN conn' = [conn EXCEPT ![c].pc = "stats"]
       ELSE IF conn[c].req.method = "GET"
       THEN conn' = [conn EXCEPT ![c].pc = "lookup"]
       ELSE conn' = [conn EXCEPT ![c].pc = "forward"]
    /\ UNCHANGED << static, now, running, zsets, cache, put_log,
                    request_queue, executor_queue, acceptor,
                    origin_requests >>

\* _handle_stats_request: statistics.get_stats() under the lock; the
\* handler keeps the returned dict (here with the request_methods of this
\* instant)
Stats(c) ==
    /\ conn[c].pc = "stats"
    /\ conn' = [conn EXCEPT ![c].pc = "stats_send",
                            ![c].response_data = get_stats(stats)]
    /\ UNCHANGED << static, now, running, stats, zsets, cache, put_log,
                    request_queue, executor_queue, acceptor,
                    origin_requests >>

\* _handle_stats_request: json.dumps of the dict and sendall, outside the
\* lock and outside any try of its own.  send_fails is an error raised by
\* sendall, after it wrote a part of the reply or nothing; the error reaches
\* the except clauses of the handler (408 for socket.timeout, 500 for any
\* other), whose _send_error_response writes its reply or fails silently
StatsSend(c, send_fails) ==
    /\ conn[c].pc = "stats_send"
    /\ IF send_fails
       THEN \E written \in
                  { << >>, << Partial(StatsReply(conn[c].response_data)) >> },
               error \in { << >>,
                           << ErrorReply(408, "Request Timeout") >>,
                           << ErrorReply(500, "Internal Server Error") >> } :
               conn' = [conn EXCEPT ![c].pc = "close",
                                    ![c].sent = @ \o written \o error]
       ELSE conn' = [conn EXCEPT ![c].pc = "close",
                                 ![c].sent =
                                    Append(@,
                                        StatsReply(conn[c].response_data))]
    /\ UNCHANGED << static, now, running, stats, zsets, cache, put_log,
                    request_queue, executor_queue, acceptor,
                    origin_requests >>

\* a lookup after which the request is forwarded whatever was found
Lookup_forwarding_hits(c, store_fails) ==
    /\ conn[c].pc = "lookup"
    /\ ~ store_fails
    /\ stats' = get_cached_response_stats(
                    conn[c].req.method, conn[c].req.path,
                    conn[c].req.headers, conn[c].req.body)
    /\ conn' = [conn EXCEPT ![c].pc = "forward"]
    /\ UNCHANGED << static, now, running, zsets, cache, put_log,
                    request_queue, executor_queue, acceptor,
                    origin_requests >>

\* cache_manager.get_cached_response and the reply from the cache;
\* store_fails is a Redis error raised by redis.get(), which reaches the
\* `except Exception` of the handler
Lookup(c, store_fails) ==
    /\ conn[c].pc = "lookup"
    /\ IF store_fails
       THEN /\ conn' = [conn EXCEPT ![c].pc = "close",
                            ![c].store_error = "lookup",
                            ![c].sent = Append(@,
                                ErrorReply(500, "Internal Server Error"))]
            /\ UNCHANGED stats
       ELSE LET cached_response ==
                    get_cached_response(conn[c].req.method, conn[c].req.path,
                                        conn[c].req.headers, conn[c].req.body)
            IN  /\ stats' = get_cached_response_stats(
                                conn[c].req.method, conn[c].req.path,
                                conn[c].req.headers, conn[c].req.body)
                /\ IF cached_response # EmptyDict
                   THEN conn' = [conn EXCEPT ![c].pc = "close",
                                    ![c].response_data = cached_response,
                                    ![c].sent = @ \o
                                        ResponseReplies(cached_response)]
                   ELSE conn' = [conn EXCEPT ![c].pc = "forward"]
    /\ UNCHANGED << static, now, running, zsets, cache, put_log,
                    request_queue, executor_queue, acceptor,
                    origin_requests >>

\* the except clauses written with the general exception first, which
\* then also catches the timeout
FailureReply_general_first(kind) == ErrorReply(502, "Bad Gateway")

\* the except clauses of _forward_request: Timeout, then RequestException
FailureReply(kind) ==
    IF kind = "timeout" THEN ErrorReply(504, "Gateway Timeout")
    ELSE ErrorReply(502, "Bad Gateway")

\* the test before cache_response without its lower bound
ShouldCache_without_lower_bound(method, status_code) ==
    method = "GET" /\ status_code < 400

\* _forward_request: the test before cache_response
ShouldCache(method, status_code) ==
    method = "GET" /\ 200 <= status_code /\ status_code < 400

\* a relayed error status counted as an error of the proxy
CountProxied_by_status(s, response_data) ==
    IF response_data["status_code"] >= 400
    THEN increment(s, "requests_error", 1)
    ELSE increment(increment(s, "requests_success", 1),
                   "bytes_transferred", Len(response_data["content"]))

\* _forward_request: the counters after the response was sent, whatever
\* its status code
CountProxied(s, response_data) ==
    increment(increment(s, "requests_success", 1),
              "bytes_transferred", Len(response_data["content"]))

\* _forward_request up to the origin's answer
Forward(c, backend_server, outcome) ==
    /\ conn[c].pc = "forward"
    /\ origin_requests' = origin_requests + 1
    /\ LET path == conn[c].req.path
           url == IF StartsWith(path, << "h", "t", "t", "p" >>) THEN path
                  ELSE backend_server \o path
       IN  IF outcome.kind \in { "timeout", "error" }
           THEN /\ conn' = [conn EXCEPT ![c].pc = "close",
                                ![c].origin = outcome.kind,
                                ![c].sent = Append(@,
                                    FailureReply(outcome.kind))]
                /\ stats' = increment(stats, "requests_error", 1)
           ELSE /\ conn' = [conn EXCEPT
                                ![c].pc =
                                    IF ShouldCache(conn[c].req.method,
                                                   outcome.status_code)
                                    THEN "store" ELSE "send",
                                ![c].origin = outcome.kind,
                                ![c].response_data =
                                    [status_code |-> outcome.status_code,
                                     headers |-> outcome.headers,
                                     content |-> outcome.content,
                                     url |-> url]]
                /\ UNCHANGED stats
    /\ UNCHANGED << static, now, running, zsets, cache, put_log,
                    request_queue, executor_queue, acceptor >>

\* cache_manager.cache_response; store_fails is a Redis error raised by
\* redis.setex(), which reaches the `except Exception` of _forward_request
Store(c, store_fails) ==
    /\ conn[c].pc = "store"
    /\ store_fails => CacheAdmits(conn[c].req.method, conn[c].response_data)
    /\ IF store_fails
       THEN /\ conn' = [conn EXCEPT ![c].pc = "close",
                            ![c].store_error = "store",
                            ![c].sent = Append(@,
                                ErrorReply(500, "Internal Server Error"))]
            /\ stats' = increment(stats, "requests_error", 1)
            /\ UNCHANGED << cache, put_log >>
       ELSE /\ cache' = cache_response(conn[c].req.method, conn[c].req.path,
                                       conn[c].req.headers,
                                       conn[c].response_data,
                                       conn[c].req.body)
            /\ put_log' = put_logged(conn[c].req.method, conn[c].req.path,
                                     conn[c].req.headers,
                                     conn[c].response_data, conn[c].req.body)
            /\ conn' = [conn EXCEPT ![c].pc = "send"]
            /\ UNCHANGED stats
    /\ UNCHANGED << static, now, running, zsets, request_queue,
                    executor_queue, acceptor, origin_requests >>

\* a success path that counts the request only when sendall succeeded
Send_counting_only_sent(c, send_fails) ==
    /\ conn[c].pc = "send"
    /\ conn' = [conn EXCEPT ![c].pc = "close",
                            ![c].sent =
                                IF send_fails THEN @
                                ELSE @ \o
                                    ResponseReplies(conn[c].response_data)]
    /\ stats' = IF send_fails THEN stats
                ELSE CountProxied(stats, conn[c].response_data)
    /\ UNCHANGED << static, now, running, zsets, cache, put_log,
                    request_queue, executor_queue, acceptor,
                    origin_requests >>

\* _send_response_to_client, then requests_success and bytes_transferred;
\* send_fails is an error raised by sendall, which _send_response_to_client
\* logs and discards
Send(c, send_fails) ==
    /\ conn[c].pc = "send"
    /\ conn' = [conn EXCEPT ![c].pc = "close",
                            ![c].sent =
                                IF send_fails THEN @
                                ELSE @ \o
                                    ResponseReplies(conn[c].response_data)]
    /\ stats' = CountProxied(stats, conn[c].response_data)
    /\ UNCHANGED << static, now, running, zsets, cache, put_log,
                    request_queue, executor_queue, acceptor,
                    origin_requests >>

\* a finally clause in which an error of close() leaves the handler
Close_raising(c, close_fails) ==
    /\ conn[c].pc = "close"
    /\ conn' = [conn EXCEPT ![c] =
                    [ConnClosed(c) EXCEPT !.close_error = close_fails]]
    /\ stats' = IF close_fails THEN stats
                ELSE decrement(stats, "active_connections", 1)
    /\ UNCHANGED << static, now, running, zsets, cache, put_log,
                    request_queue, executor_queue, acceptor,
                    origin_requests >>

\* finally: client_socket.close(), whose error (close_fails) is swallowed,
\* and the active_connections decrement
Close(c, close_fails) ==
    /\ conn[c].pc = "close"
    /\ conn' = [conn EXCEPT ![c] =
                    [ConnClosed(c) EXCEPT !.close_error = close_fails]]
    /\ stats' = decrement(stats, "active_connections", 1)
    /\ UNCHANGED << static, now, running, zsets, cache, put_log,
                    request_queue, executor_queue, acceptor,
                    origin_requests >>

(***************************************************************************)
(* The specification.                                                      *)
(***************************************************************************)
\* the steps of the acceptor, the worker threads and the executor for
\* clients at the addresses ips
Admit(ips, faults) ==
    \/ \E c \in Conns, ip \in ips, store_fails \in faults :
          Accept(c, ip, store_fails)
    \/ Put
    \/ IncrActive
    \/ WorkerGet
    \/ \E c \in Conns : WorkerSubmit(c)
    \/ ExecutorStart

\* the steps of the handler of connection c for a client that sends one of
\* the requests reqs and origins that answer with outcomes
Handle(c, reqs, outcomes, faults) ==
    \/ \E req \in reqs : Recv(c, req)
    \/ Method(c)
    \/ \E store_fails \in faults : Lookup(c, store_fails)
    \/ \E outcome \in outcomes :
          \E backend_server \in select_backend_server :
             Forward(c, backend_server, outcome)
    \/ \E store_fails \in faults : Store(c, store_fails)
    \/ \E send_fails \in faults : Send(c, send_fails)
    \/ \E close_fails \in faults : Close(c, close_fails)

\* the steps of the running server, with a store and client sockets that
\* fail as faults says (FALSE: the call succeeds, TRUE: it raises an error)
Serve(ips, reqs, outcomes, faults) ==
    \/ Tick
    \/ Admit(ips, faults)
    \/ \E c \in Conns : Handle(c, reqs, outcomes, faults)

\* the same server with clients that also ask for the statistics
ServeStats(ips, reqs, outcomes, faults) ==
    \/ Serve(ips, reqs \cup { GET_stats }, outcomes, faults)
    \/ \E c \in Conns : Stats(c)
    \/ \E c \in Conns, send_fails \in faults : StatsSend(c, send_fails)

\* the same server, which may be interrupted at any point
NextOn(ips, reqs, outcomes, faults) ==
    \/ Serve(ips, reqs, outcomes, faults)
    \/ Stop
    \/ StopDrain
    \/ StopShutdown
    \/ WorkerExit
    \/ \E c \in Conns : RecvStopped(c)

(***************************************************************************)
(* The CacheManager called directly, as a unit test calls it.              *)
(***************************************************************************)
CM_Headers == { EmptyDict, H_accept :> "text/html" }

CM_Responses ==
    { [status_code |-> st, headers |-> h, content |-> ct,
       url |-> B_a \o T_x] :
         st \in { 200, 404 },
         h \in { ContentType,
                 ContentType @@ ("Cache-Control" :> V_no_store) },
         ct \in { << >>, << 255 >>, << 0, 254 >>, << 77, 97, 110 >>,
                  << 104, 101, 108, 108, 111 >> } }

CallCacheResponse(method, url, headers, response_data, body) ==
    /\ cache' = cache_response(method, url, headers, response_data, body)
    /\ put_log' = put_logged(method, url, headers, response_data, body)
    /\ returned' = [call |-> "cache_response"]
    /\ UNCHANGED << now, running, filter_rules, backend_servers,
                    enable_compression, thread_pool_size,
                    request_queue_size, workers, limiter_calls, stats,
                    zsets, request_queue, executor_queue, acceptor, conn,
                    origin_requests >>

\* the number of calls is bounded through the two counters
CallGetCachedResponse(method, url, headers, body) ==
    /\ stats.cache_hits + stats.cache_misses < MaxConns
    /\ returned' = [call |-> "get_cached_response", method |-> method,
                    url |-> url, headers |-> headers, body |-> body,
                    value |-> get_cached_response(method, url, headers,
                                                  body)]
    /\ stats' = get_cached_response_stats(method, url, headers, body)
    /\ UNCHANGED << now, running, filter_rules, backend_servers,
                    enable_compression, thread_pool_size,
                    request_queue_size, workers, limiter_calls, zsets,
                    cache, put_log, request_queue, executor_queue, acceptor,
                    conn, origin_requests >>

\* another client of the Redis database writes a text that is not JSON
\* under the cache key of a request
ForeignWrite(method, url, headers, body) ==
    LET cache_key == generate_cache_key(method, url, headers, body)
    IN  /\ cache' = DictSet(cache, cache_key,
                            [value |-> << << "status_code" >> >>,
                             expires |-> now + CACHE_EXPIRATION])
        /\ put_log' = DictDel(put_log, cache_key)
        /\ returned' = [call |-> "none"]
        /\ UNCHANGED << now, running, filter_rules, backend_servers,
                        enable_compression, thread_pool_size,
                        request_queue_size, workers, limiter_calls, stats,
                        zsets, request_queue, executor_queue, acceptor,
                        conn, origin_requests >>

NextCacheManager ==
    \/ Tick
    \/ \E method \in { "GET", "POST" }, headers \in CM_Headers,
          response_data \in CM_Responses :
          CallCacheResponse(method, T_x, headers, response_data, << >>)
    \/ \E method \in { "GET", "POST" }, headers \in CM_Headers :
          CallGetCachedResponse(method, T_x, headers, << >>)

(***************************************************************************)
(* _send_response_to_client called directly, as the handler calls it for a *)
(* request with the headers request_headers: the function is given the     *)
(* socket and response_data only.                                          *)
(***************************************************************************)

SR_Responses ==
    { [status_code |-> st,
       headers |-> ("Content-Type" :> ct) @@ ae,
       content |-> content,
       url |-> B_a \o T_x] :
         st \in { 200, 301, 399 },
         ct \in { V_text_plain,
                  << "i", "m", "a", "g", "e", "/", "p", "n", "g" >> },
         ae \in { EmptyDict, "Accept-Encoding" :> T_gzip },
         content \in { [i \in 1 .. n |-> 97] :
                          n \in { 5, CompressionThreshold,
                                  CompressionThreshold + 1 } } }

CallSendResponse(request_headers, response_data) ==
    /\ returned' = [call |-> "send_response",
                    request_headers |-> request_headers,
                    response_data |-> response_data,
                    replies |-> ResponseReplies(response_data)]
    /\ UNCHANGED << now, running, filter_rules, backend_servers,
                    enable_compression, thread_pool_size,
                    request_queue_size, workers, limiter_calls, stats, zsets,
                    cache, put_log,
                    request_queue, executor_queue, acceptor, conn,
                    origin_requests >>

NextSendResponse ==
    \E request_headers \in { EmptyDict, H_accept_encoding :> T_gzip },
       response_data \in SR_Responses :
        CallSendResponse(request_headers, response_data)

SpecSendResponse ==
    InitWith({ << R_ads >> }, { << B_a >> }, BOOLEAN)
       /\ [][NextSendResponse]_vars

\* the server with the denylist entry ads and one backend, one client
\* address, a store that answers and an origin that answers 200
Init == InitOn({ << R_ads >> }, { << B_a >> })

Next == Serve({ "10.0.0.1" }, { GET_x }, { O_hello }, { FALSE })

Spec == Init /\ [][Next]_vars

\* the CacheManager alone
SpecCacheManager ==
    InitOn({ << R_ads >> }, { << B_a >> }) /\ [][NextCacheManager]_vars

\* the CacheManager on a store that other clients write to
NextForeignWrites ==
    \/ NextCacheManager
    \/ \E headers \in CM_Headers : ForeignWrite("GET", T_x, headers, << >>)

SpecForeignWrites ==
    InitOn({ << R_ads >> }, { << B_a >> }) /\ [][NextForeignWrites]_vars

\* the CacheManager given responses with a Cache-Control header, in the
\* letter case the origin sent it (dict(response.headers) keeps the case)
CC_Responses ==
    { [status_code |-> 200, headers |-> ContentType @@ cc,
       content |-> << 104 >>, url |-> B_a \o T_x] :
         cc \in { EmptyDict,
                  "Cache-Control" :> V_no_store,
                  "Cache-Control" :> V_no_cache,
                  "Cache-Control"
                     :> << "N", "o", "-", "S", "t", "o", "r", "e" >>,
                  "cache-control" :> V_no_store,
                  "Cache-Control"
                     :> << "m", "a", "x", "-", "a", "g", "e", "=", "0" >> } }

NextCacheControl ==
    \/ Tick
    \/ \E headers \in CM_Headers, response_data \in CC_Responses :
          CallCacheResponse("GET", T_x, headers, response_data, << >>)
    \/ \E headers \in CM_Headers :
          CallGetCachedResponse("GET", T_x, headers, << >>)

SpecCacheControl ==
    InitOn({ << R_ads >> }, { << B_a >> }) /\ [][NextCacheControl]_vars

\* requests of every method
NextMethods ==
    Serve({ "10.0.0.1" }, { GET_x, POST_x }, { O_hello }, { FALSE })

SpecMethods == Init /\ [][NextMethods]_vars

\* a store that may fail at every access
NextFaulty == Serve({ "10.0.0.1" }, { GET_x }, { O_hello }, BOOLEAN)

SpecFaulty == Init /\ [][NextFaulty]_vars

\* clients that ask for the statistics while others are served
NextStats == ServeStats({ "10.0.0.1" }, { GET_x }, { O_hello }, { FALSE })

SpecStats == Init /\ [][NextStats]_vars

SpecStatsFilter ==
    InitOn({ << >>, << R_stats >> }, { << B_a >> }) /\ [][NextStats]_vars

\* requests for a denylisted target
NextFilters ==
    Serve({ "10.0.0.1" }, { GET_x, GET_ads }, { O_hello }, { FALSE })

SpecFilters == Init /\ [][NextFilters]_vars

\* origins that time out or fail
NextOrigin ==
    Serve({ "10.0.0.1" }, { GET_x }, { O_hello, O_timeout, O_error },
          { FALSE })

SpecOrigin == Init /\ [][NextOrigin]_vars

\* origins that answer with an error status
NextErrorStatus ==
    Serve({ "10.0.0.1" }, { GET_x }, { O_hello, O_500 }, { FALSE })

SpecErrorStatus == Init /\ [][NextErrorStatus]_vars

\* origins that answer with a status at the edges of the cached range
NextStatus ==
    Serve({ "10.0.0.1" }, { GET_x },
          { OriginResponse(199, ContentType, << 104 >>), O_hello,
            OriginResponse(399, ContentType, << 104 >>),
            OriginResponse(400, ContentType, << 104 >>) },
          { FALSE })

SpecStatus == Init /\ [][NextStatus]_vars

SpecHandoff ==
    InitServer({ << R_ads >> }, { << B_a >> }, { TRUE },
               { THREAD_POOL_SIZE }, 1 .. REQUEST_QUEUE_SIZE)
       /\ [][Next]_vars

SpecPool ==
    InitServer({ << R_ads >> }, { << B_a >> }, { TRUE },
               { 1, THREAD_POOL_SIZE }, { 1 })
       /\ [][Next]_vars

\* clients that send well-formed and malformed request lines
NextRequestLine ==
    Serve({ "10.0.0.1" },
          { ParseRequest(request_line, EmptyDict, << >>) :
                request_line \in RequestLines },
          { O_hello }, { FALSE })

SpecRequestLine == Init /\ [][NextRequestLine]_vars

HandlerSteps(c) ==
    \/ Handle(c,
              { GET_x, GET_ads, GET_stats,
                ParseRequest(L_no_version, EmptyDict, << >>),
                Req("empty", "", << >>, EmptyDict, << >>),
                Req("timeout", "", << >>, EmptyDict, << >>) },
              { O_hello, O_timeout, O_error }, BOOLEAN)
    \/ Stats(c)
    \/ \E send_fails \in BOOLEAN : StatsSend(c, send_fails)

NextHandlers ==
    \/ Admit({ "10.0.0.1" }, { FALSE })
    \/ \E c \in Conns : HandlerSteps(c)

\* a started handler is a running thread of the pool, and each of its
\* blocking calls has a deadline: it keeps taking steps
SpecHandlers ==
    /\ InitServer({ << R_ads >> }, { << B_a >> }, { TRUE }, { 1 },
                  { REQUEST_QUEUE_SIZE })
    /\ [][NextHandlers]_vars
    /\ \A c \in Conns : WF_vars(HandlerSteps(c))

\* the RateLimiter called directly, over a time that lets a window pass
\* after the last second at which the server is observed
CallIsRateLimited(client_ip) ==
    /\ zsets' = [zsets EXCEPT ![client_ip] = RateLimiterPipeline(@)]
    /\ returned' = [call |-> "is_rate_limited", client_ip |-> client_ip,
                    result |-> is_rate_limited(zsets[client_ip])]
    /\ limiter_calls' = [limiter_calls EXCEPT ![client_ip] = @ \cup { now }]
    /\ UNCHANGED << now, running, filter_rules, backend_servers,
                    enable_compression, thread_pool_size, request_queue_size,
                    workers,
                    stats, cache, put_log, request_queue, executor_queue,
                    acceptor, conn, origin_requests >>

NextRateLimiter ==
    \/ TickUntil(MaxTime + RATE_LIMIT_WINDOW)
    \/ \E client_ip \in ClientIPs : CallIsRateLimited(client_ip)

SpecRateLimiter == Init /\ [][NextRateLimiter]_vars

\* invalidate_cache called directly.  With a pattern, redis.get() of a key
\* rate_limit:<ip> raises ResponseError (WRONGTYPE: the key holds a sorted
\* set), which the except clause of the loop does not catch: the call ends
\* there, after the keys that the scan yielded before; without a pattern
\* every key of the database is deleted.
CallInvalidateCache(url_pattern) ==
    \E scanned \in SUBSET DOMAIN cache :
        /\ (RateLimitKeys = {} \/ url_pattern = << >>)
              => scanned = DOMAIN cache
        /\ cache' = invalidate_cache(url_pattern, scanned)
        /\ put_log' = [k \in DOMAIN put_log \cap
                                DOMAIN invalidate_cache(url_pattern, scanned)
                          |-> put_log[k]]
        /\ zsets' = IF url_pattern # << >> THEN zsets
                    ELSE [ip \in ClientIPs |-> NoZset]
        /\ returned' = [call |-> "invalidate_cache",
                        url_pattern |-> url_pattern,
                        raised |-> IF url_pattern # << >>
                                      /\ RateLimitKeys # {}
                                   THEN "ResponseError" ELSE "none"]
        /\ UNCHANGED << now, running, filter_rules, backend_servers,
                        enable_compression, thread_pool_size,
                        request_queue_size, workers, limiter_calls, stats,
                        request_queue, executor_queue, acceptor, conn,
                        origin_requests >>

IV_Response(url) ==
    [status_code |-> 200, headers |-> ContentType, content |-> << 104 >>,
     url |-> B_a \o url]

NextInvalidate ==
    \/ Tick
    \/ \E url \in { T_x, T_ads } :
          CallCacheResponse("GET", url, EmptyDict, IV_Response(url), << >>)
    \/ \E client_ip \in ClientIPs : CallIsRateLimited(client_ip)
    \/ \E url_pattern \in { << >>, T_x, T_ads, << "/" >> } :
          CallInvalidateCache(url_pattern)

SpecInvalidate == Init /\ [][NextInvalidate]_vars

\* RequestFilter.__init__: a configuration that is not a list (None: the
\* rule list is absent) leaves no rule
RequestFilter(request_filters) ==
    IF request_filters = None THEN << >> ELSE request_filters

CallShouldFilter(url, headers) ==
    /\ returned' = [call |-> "should_filter", url |-> url,
                    headers |-> headers,
                    result |-> should_filter(url, headers)]
    /\ UNCHANGED << now, running, filter_rules, backend_servers,
                    enable_compression, thread_pool_size, request_queue_size,
                    workers,
                    limiter_calls, stats, zsets, cache, put_log,
                    request_queue, executor_queue, acceptor, conn,
                    origin_requests >>

NextFilter ==
    \E url \in { << >>, T_x, T_ads, T_stats, B_a \o T_ads, T_x \o T_ads },
       headers \in { EmptyDict,
                     << "U", "s", "e", "r", "-", "A", "g", "e", "n", "t" >>
                        :> << "b", "o", "t" >>,
                     H_accept :> R_ads } :
        CallShouldFilter(url, headers)

SpecFilter ==
    InitOn({ RequestFilter(request_filters) :
                request_filters \in { None, << >>, << << >> >>, << R_ads >>,
                                      << << "A", "D", "S" >> >>,
                                      << << >>, R_stats >>,
                                      << R_stats, R_ads >> } },
           { << B_a >> })
       /\ [][NextFilter]_vars

\* the server interrupted while it serves
NextInterrupted ==
    NextOn({ "10.0.0.1" }, { GET_x }, { O_hello }, { FALSE })

\* GET requests that differ from GET /x without headers in a header that
\* is not hashed and in the body, in one hashed header (one of them under
\* two spellings of its name), or in the target
CK_Requests ==
    { Req("ok", "GET", T_x, headers, << >>) :
        headers \in { EmptyDict,
                      H_accept :> V_text_plain,
                      << "a", "c", "c", "e", "p", "t" >> :> V_text_plain,
                      H_accept_encoding :> T_gzip,
                      << "a", "c", "c", "e", "p", "t", "-", "l", "a", "n",
                         "g", "u", "a", "g", "e" >> :> << "e", "n" >> } }
    \cup { Req("ok", "GET", T_x, << "H", "o", "s", "t" >> :> << "a" >>,
               << 104 >>),
           Req("ok", "GET", T_x \o T_x, EmptyDict, << >>) }

\* clients at two addresses that connect within one second, two origins,
\* one pool thread and a queue of depth 1
NextCacheKey ==
    \/ Admit(ClientIPs, { FALSE })
    \/ \E c \in Conns : Handle(c, CK_Requests, { O_hello }, { FALSE })

SpecCacheKey ==
    InitServer({ << R_ads >> },
               { << B_a, << "h", "t", "t", "p", ":", "/", "/", "b" >> >> },
               { TRUE }, { 1 }, { 1 })
       /\ [][NextCacheKey]_vars

\* the same, with threads that keep running: a step that can be taken is
\* not postponed for ever
SpecShutdown ==
    Init /\ [][NextInterrupted]_vars /\ WF_vars(NextInterrupted)

(***************************************************************************)
(* Properties.                                                             *)
(***************************************************************************)
\* the connection that takes the step, when the step is a handler's
Steps(c) == conn[c] # conn'[c]

\* the counters a request may change besides requests_total, the method
\* counts and active_connections
OutcomeCounters ==
    { "requests_success", "requests_error", "bytes_transferred",
      "cache_hits", "cache_misses", "rate_limited_requests" }

\* the target contains a denylist substring, compared case-insensitively
Denylisted(url) ==
    \E i \in 1 .. Len(filter_rules) :
        /\ Len(filter_rules[i]) > 0
        /\ \E k \in 0 .. (Len(url) - Len(filter_rules[i])) :
              \A j \in 1 .. Len(filter_rules[i]) :
                  LowerChar(url[k + j]) = LowerChar(filter_rules[i][j])

Reply403 == ErrorReply(403, "Forbidden")

\* C9: a request whose target contains a denylist substring is answered 403
\* Forbidden at classification, without a cache lookup, a cache store or an
\* origin request, and is then closed; apart from requests_total and the
\* method count it changes none of requests_success, requests_error,
\* bytes_transferred, cache_hits, cache_misses, rate_limited_requests.
C9_FilteredIs403 ==
    [][\A c \in Conns :
        /\ (conn[c].pc = "method" /\ Steps(c)
            /\ Denylisted(conn[c].req.path))
           => /\ conn'[c].sent = << Reply403 >>
              /\ conn'[c].pc = "close"
              /\ cache' = cache
              /\ origin_requests' = origin_requests
              /\ \A k \in OutcomeCounters : stats'[k] = stats[k]
              /\ stats'.requests_total = stats.requests_total
        /\ (conn[c].pc = "close" /\ Steps(c)
            /\ conn[c].sent = << Reply403 >>)
           => /\ conn'[c].pc = "closed"
              /\ cache' = cache
              /\ origin_requests' = origin_requests
              /\ \A k \in OutcomeCounters : stats'[k] = stats[k]
              /\ stats'.requests_total = stats.requests_total
              /\ stats'.request_methods = stats.request_methods
    ]_vars

\* a denylisted request has been answered 403 and awaits its close
C9_Witness ==
    \E c \in Conns :
        /\ conn[c].pc = "close"
        /\ conn[c].req = GET_ads
        /\ conn[c].sent = << Reply403 >>
        /\ stats.requests_total = 1

\* C1: a get_cached_response for a GET key for which an admitted response
\* was stored (within the TTL, no later write to the key) returns the
\* stored body bytes, status code and headers.
C1_RoundTrip ==
    [][(returned'.call = "get_cached_response" /\ stats' # stats)
        => LET cache_key == generate_cache_key(returned'.method,
                                returned'.url, returned'.headers,
                                returned'.body)
           IN  cache_key \in DOMAIN put_log
               => /\ returned'.value # EmptyDict
                  /\ returned'.value["content"] = put_log[cache_key]["content"]
                  /\ returned'.value["status_code"]
                        = put_log[cache_key]["status_code"]
                  /\ returned'.value["headers"] = put_log[cache_key]["headers"]
    ]_vars

\* a get has returned the five stored bytes of "hello"
C1_Witness ==
    /\ returned.call = "get_cached_response"
    /\ returned.value # EmptyDict
    /\ returned.value["content"] = << 104, 101, 108, 108, 111 >>
    /\ returned.value["status_code"] = 200
    /\ returned.headers = H_accept :> "text/html"

NonGet(c) == conn[c].req.kind = "ok" /\ conn[c].req.method # "GET"

\* responses that cache_response admits for a GET
AdmittedResponses ==
    { rd \in CM_Responses :
        /\ rd["status_code"] = 200
        /\ DOMAIN rd["headers"] = { "Content-Type" }
        /\ Len(rd["content"]) \in { 0, 5 } }

\* C2: for a method other than GET, get_cached_response returns None and
\* counts nothing and cache_response writes nothing; the store never holds
\* an entry made by a non-GET request, a non-GET request is never looked up
\* in the cache, and no step of it changes the store, cache_hits or
\* cache_misses.
C2_NonGetBypassesCache ==
    [][/\ \A headers \in CM_Headers, body \in { << >>, << 1 >> } :
            /\ get_cached_response("POST", T_x, headers, body) = EmptyDict
            /\ get_cached_response_stats("POST", T_x, headers, body) = stats
            /\ \A response_data \in AdmittedResponses :
                  cache_response("POST", T_x, headers, response_data, body)
                      = cache
       /\ \A k \in DOMAIN cache : k["method"] = "GET"
       /\ \A c \in Conns :
            NonGet(c)
            => /\ conn[c].pc \notin { "lookup", "store" }
               /\ Steps(c)
                  => /\ cache' = cache
                     /\ stats'.cache_hits = stats.cache_hits
                     /\ stats'.cache_misses = stats.cache_misses
    ]_vars

\* a POST has been answered by the origin while the store holds the entry
\* of a GET of the same target
C2_Witness ==
    \E c \in Conns :
        /\ conn[c].req = POST_x
        /\ conn[c].pc = "close"
        /\ conn[c].origin = "response"
        /\ Len(conn[c].sent) = 1
        /\ DOMAIN cache # {}
        /\ stats.cache_misses = 1

ReqKey(c) ==
    generate_cache_key(conn[c].req.method, conn[c].req.path,
                       conn[c].req.headers, conn[c].req.body)

\* C3: a GET whose key has no entry counts one cache miss and is forwarded,
\* contacting the origin once, and its reply carries the origin's status
\* and body; a GET whose key has an entry stored by an earlier identical
\* GET (within the TTL) counts one cache hit, is answered with the stored
\* status and body, and the origin is not contacted.
C3_SecondGetFromCache ==
    [][\A c \in Conns :
        /\ (conn[c].pc = "lookup" /\ Steps(c))
           => IF ReqKey(c) \in DOMAIN put_log
              THEN /\ stats'.cache_hits = stats.cache_hits + 1
                   /\ stats'.cache_misses = stats.cache_misses
                   /\ origin_requests' = origin_requests
                   /\ conn'[c].pc = "close"
                   /\ Len(conn'[c].sent) = 1
                   /\ conn'[c].sent[1].kind = "response"
                   /\ conn'[c].sent[1].status_code
                         = put_log[ReqKey(c)]["status_code"]
                   /\ conn'[c].sent[1].body = put_log[ReqKey(c)]["content"]
              ELSE /\ stats'.cache_misses = stats.cache_misses + 1
                   /\ stats'.cache_hits = stats.cache_hits
                   /\ conn'[c].pc = "forward"
        /\ (conn[c].pc = "forward" /\ Steps(c))
           => /\ origin_requests' = origin_requests + 1
              /\ conn'[c].pc # "forward"
        /\ (conn[c].pc = "store" /\ Steps(c)
            /\ conn[c].response_data["status_code"] = 200)
           => /\ ReqKey(c) \in DOMAIN put_log'
              /\ put_log'[ReqKey(c)] = conn[c].response_data
        /\ (conn[c].pc = "send" /\ Steps(c))
           => /\ Len(conn'[c].sent) = 1
              /\ conn'[c].sent[1].status_code
                    = conn[c].response_data["status_code"]
              /\ conn'[c].sent[1].body = conn[c].response_data["content"]
              /\ origin_requests' = origin_requests
    ]_vars

\* the second of two identical GETs has been answered 200 "hello" from the
\* cache: one miss, one hit, one request to the origin
C3_Witness ==
    \E c \in Conns :
        /\ conn[c].pc = "close"
        /\ conn[c].req = GET_x
        /\ conn[c].origin = "none"
        /\ Len(conn[c].sent) = 1
        /\ conn[c].sent[1].status_code = 200
        /\ conn[c].sent[1].body = << 104, 101, 108, 108, 111 >>
        /\ stats.cache_misses = 1
        /\ stats.cache_hits = 1
        /\ origin_requests = 1

Checked(c) == conn[c].rate_check \in { "ok", "limited" }

\* C4: of the connections of one client address that arrive within
\* RATE_LIMIT_WINDOW seconds, whatever their spacing, the first
\* RATE_LIMIT_REQUESTS are admitted and the next one is dropped and counted
\* once in rate_limited_requests.  (All clients of the specification share
\* one address; connections are numbered in the order of their arrival.)
C4_NPlusOneDropped ==
    now < RATE_LIMIT_WINDOW
    => \A c \in Conns :
          Checked(c)
          => /\ c <= RATE_LIMIT_REQUESTS => conn[c].rate_check = "ok"
             /\ c = RATE_LIMIT_REQUESTS + 1
                => /\ conn[c].rate_check = "limited"
                   /\ stats.rate_limited_requests >= 1

\* C5: a connection reported as limited is closed by the acceptor with
\* nothing written to it, is not queued and never handled (it stays as it
\* is), and the step changes no counter but rate_limited_requests.
C5_LimitedOnlyCounted ==
    [][\A c \in Conns :
        /\ (conn[c].rate_check # "limited"
            /\ conn'[c].rate_check = "limited")
           => /\ conn'[c].pc = "closed"
              /\ conn'[c].sent = << >>
              /\ request_queue' = request_queue
              /\ executor_queue' = executor_queue
              /\ stats'.rate_limited_requests
                    = stats.rate_limited_requests + 1
              /\ \A k \in (DOMAIN stats) \ { "rate_limited_requests" } :
                    stats'[k] = stats[k]
        /\ conn[c].rate_check = "limited"
           => /\ conn'[c] = conn[c]
              /\ \A i \in DOMAIN request_queue : request_queue[i] # c
              /\ \A i \in DOMAIN executor_queue : executor_queue[i] # c
    ]_vars

\* a connection has been limited while the admitted one waits: closed,
\* counted once, no request counted
C5_Witness ==
    \E c \in Conns :
        /\ conn[c].rate_check = "limited"
        /\ conn[c].pc = "closed"
        /\ conn[c].sent = << >>
        /\ stats.rate_limited_requests = 1
        /\ stats.requests_total = 0
        /\ stats.active_connections = 1

\* C6: when the store fails during the rate check the connection is
\* treated as not limited: the acceptor goes on to put it on the handoff
\* queue like an admitted connection, and rate_limited_requests is not
\* counted.
C6_RateCheckFailsOpen ==
    [][\A c \in Conns :
        (conn[c].rate_check = "none" /\ conn'[c].rate_check = "error")
        => /\ conn'[c].pc = "accepted"
           /\ acceptor' = [pc |-> "put", c |-> c]
           /\ stats' = stats
    ]_vars

\* C7: a store error on the cache path degrades to a cache miss: after a
\* failed lookup the request is forwarded to an origin; after a failed
\* cache store the handler goes on to send the origin's response to the
\* client, not a 500, and counts the request in requests_success.
C7_CacheErrorIsMiss ==
    [][\A c \in Conns :
        /\ (conn[c].pc = "lookup" /\ conn'[c].store_error = "lookup")
           => /\ conn'[c].pc = "forward"
              /\ conn'[c].sent = << >>
        /\ (conn[c].pc = "store" /\ conn'[c].store_error = "store")
           => /\ conn'[c].pc = "send"
              /\ conn'[c].sent = << >>
              /\ stats'.requests_error = stats.requests_error
        /\ (conn[c].pc = "send" /\ conn[c].store_error = "store"
            /\ Steps(c))
           => /\ conn'[c].sent = ResponseReplies(conn[c].response_data)
              /\ stats'.requests_success = stats.requests_success + 1
    ]_vars

\* C8: whatever the denylist, a request for exactly /proxy-stats is
\* answered 200 with the statistics snapshot, never 403 by the filter, and
\* is not forwarded.
C8_StatsNeverFiltered ==
    \A c \in Conns :
        (conn[c].req.path = T_stats /\ conn[c].pc = "close")
        => /\ Len(conn[c].sent) = 1
           /\ conn[c].sent[1].kind = "stats"
           /\ conn[c].sent[1].status_code = 200
           /\ conn[c].origin = "none"

OriginFailed(c) == conn[c].origin \in { "timeout", "error" }

\* C10: in the forward step an origin timeout is answered 504 Gateway
\* Timeout and any other transport error 502 Bad Gateway; the step adds 1
\* to requests_error and leaves requests_success, bytes_transferred and
\* the store as they are, and the next step of the connection closes it,
\* again without a change of the store or of these counters.
C10_OriginFailures ==
    [][\A c \in Conns :
        /\ (conn[c].pc = "forward" /\ Steps(c) /\ OriginFailed(c)')
           => /\ Len(conn'[c].sent) = 1
              /\ conn'[c].sent[1].status_code
                    = (IF conn'[c].origin = "timeout" THEN 504 ELSE 502)
              /\ conn'[c].sent[1].reason
                    = (IF conn'[c].origin = "timeout"
                       THEN "Gateway Timeout" ELSE "Bad Gateway")
              /\ stats'.requests_error = stats.requests_error + 1
              /\ stats'.requests_success = stats.requests_success
              /\ stats'.bytes_transferred = stats.bytes_transferred
              /\ cache' = cache
              /\ conn'[c].pc = "close"
        /\ (OriginFailed(c) /\ Steps(c))
           => /\ conn[c].pc = "close"
              /\ conn'[c].pc = "closed"
              /\ cache' = cache
              /\ \A k \in OutcomeCounters : stats'[k] = stats[k]
    ]_vars

\* an origin timeout has been answered 504 and counted as an error
C10_Witness504 ==
    \E c \in Conns :
        /\ conn[c].origin = "timeout"
        /\ conn[c].pc = "close"
        /\ conn[c].sent[1].status_code = 504
        /\ stats.requests_error = 1
        /\ stats.requests_success = 0

Reply500 == ErrorReply(500, "Internal Server Error")

\* C11: an exception raised while a request is handled, other than an
\* origin timeout, an origin transport error or a client read timeout, is
\* answered 500 Internal Server Error and adds exactly 1 to requests_error,
\* wherever in the handler it is raised (here: the error of the store in
\* the cache lookup, and in the cache store of the forwarding).
C11_HandlerErrorCounted ==
    [][\A c \in Conns :
        (conn[c].store_error = "none" /\ conn'[c].store_error # "none")
        => /\ conn'[c].sent = << Reply500 >>
           /\ stats'.requests_error = stats.requests_error + 1
    ]_vars

\* the status code of the entry stored under cache_key
StoredStatus(cache_key) == json_loads(cache[cache_key].value)["status_code"]

ErrorStatus(c) ==
    /\ conn[c].origin = "response"
    /\ conn[c].response_data["status_code"] >= 400

MethodSum(snapshot) ==
    snapshot["request_methods"]["GET"] + snapshot["request_methods"]["POST"]
    + snapshot["request_methods"]["PUT"]
    + snapshot["request_methods"]["DELETE"]
    + snapshot["request_methods"]["OTHER"]

\* the statistics replies written so far to open sockets
StatsReplies ==
    { reply \in UNION { { conn[c].sent[i] : i \in DOMAIN conn[c].sent } :
                          c \in Conns } : reply.kind = "stats" }

\* C13: in every statistics snapshot taken while handlers run, the sum of
\* the per-method counters equals requests_total (connections rejected
\* before classification count on neither side).
C13_MethodsSumToTotal ==
    \A reply \in StatsReplies :
        MethodSum(reply.body) = reply.body["requests_total"]

\* no request is between its classification and its close
AllCompleted ==
    \A c \in Conns : conn[c].pc \notin (HandlerPcs \ { "recv" })

\* C14: once every request has completed, cache_hits + cache_misses equals
\* the number of GET requests that reached classification, whatever their
\* target.
C14_LookupsEqualGets ==
    AllCompleted
    => stats.cache_hits + stats.cache_misses = stats.request_methods["GET"]

\* C15: a call of get_cached_response for a GET adds 1 to exactly one of
\* cache_hits and cache_misses: to cache_hits only when an entry is present
\* and decodes (and is returned), to cache_misses when the key is absent or
\* the stored value cannot be decoded (and None is returned).
C15_ExactlyOneOfHitMiss ==
    [][(returned'.call = "get_cached_response" /\ returned'.method = "GET"
        /\ stats' # stats)
        => LET cache_key == generate_cache_key(returned'.method,
                                returned'.url, returned'.headers,
                                returned'.body)
               decoded == /\ cache_key \in DOMAIN cache
                          /\ ~ JSONDecodeError(cache[cache_key].value)
           IN  IF decoded
               THEN /\ stats'.cache_hits = stats.cache_hits + 1
                    /\ stats'.cache_misses = stats.cache_misses
                    /\ returned'.value # EmptyDict
               ELSE /\ stats'.cache_hits = stats.cache_hits
                    /\ stats'.cache_misses = stats.cache_misses + 1
                    /\ returned'.value = EmptyDict
    ]_vars

\* the counters of a snapshot other than active_connections and the
\* per-method counts
MonotonicCounters ==
    { "requests_total", "requests_success", "requests_error",
      "bytes_transferred", "cache_hits", "cache_misses",
      "rate_limited_requests" }

\* C16: from a snapshot to any later one, every counter except
\* active_connections is non-decreasing: requests_total, requests_success,
\* requests_error, bytes_transferred, cache_hits, cache_misses,
\* rate_limited_requests and each per-method count.  (get_stats(stats) is
\* the snapshot a call of get_stats would take in the state.)
C16_CountersMonotonic ==
    [][/\ \A k \in MonotonicCounters :
            get_stats(stats)'[k] >= get_stats(stats)[k]
       /\ \A m \in DOMAIN stats.request_methods :
            get_stats(stats)'["request_methods"][m]
                >= get_stats(stats)["request_methods"][m]
    ]_vars

\* both connections were served and closed: active_connections is back at
\* 0 while the other counters have grown
C16_Witness ==
    /\ \A c \in Conns : conn[c].pc = "closed" /\ conn[c].rate_check = "ok"
    /\ stats.active_connections = 0
    /\ stats.requests_total = MaxConns
    /\ stats.requests_error >= 1
    /\ stats.requests_success >= 1
    /\ stats.bytes_transferred >= 5
    /\ stats.request_methods["GET"] = MaxConns

\* C17: get_stats returns a consistent copy: every value of the returned
\* snapshot, the per-method counts included, is the value of the instant of
\* the call, and updates made by other threads after get_stats has
\* returned do not change it; so the snapshot serialised for /proxy-stats
\* is the one get_stats took (kept in response_data).
C17_SnapshotIsACopy ==
    \A c \in Conns :
        \A i \in DOMAIN conn[c].sent :
            conn[c].sent[i].kind = "stats"
            => conn[c].sent[i].body = conn[c].response_data

\* C18: the reply body is gzip-compressed, with Content-Encoding: gzip and
\* Content-Length the compressed length, exactly when compression is
\* enabled, the body is longer than 1024 bytes, the request advertised gzip
\* in its Accept-Encoding header and the origin's Content-Type contains
\* text; otherwise the body is sent as it is.
C18_GzipWhenAdvertised ==
    returned.call = "send_response"
    => LET content == returned.response_data["content"]
           advertised ==
               IsSubstring(T_gzip, DictGet(returned.request_headers,
                                           H_accept_encoding, << >>))
           textual ==
               IsSubstring(T_text,
                           DictGet(returned.response_data["headers"],
                                   "Content-Type", << >>))
           compressed == /\ enable_compression
                         /\ Len(content) > 1024
                         /\ advertised
                         /\ textual
       IN  \A i \in DOMAIN returned.replies :
              IF compressed
              THEN /\ returned.replies[i].body = gzip_compress(content)
                   /\ "Content-Encoding" \in DOMAIN returned.replies[i].headers
                   /\ returned.replies[i].headers["Content-Encoding"] = T_gzip
                   /\ returned.replies[i].headers["Content-Length"]
                         = Len(gzip_compress(content))
              ELSE /\ returned.replies[i].body = content
                   /\ "Content-Encoding"
                         \notin DOMAIN returned.replies[i].headers
                   /\ returned.replies[i].headers["Content-Length"]
                         = Len(content)

\* the Cache-Control header of a response, whatever the letter case of its
\* name
CacheControlOf(response_data) ==
    LET names == { "Cache-Control", "cache-control", "CACHE-CONTROL" }
                     \cap DOMAIN response_data["headers"]
    IN  IF names = {} THEN << >>
        ELSE response_data["headers"][CHOOSE name \in names : TRUE]

\* C19: cache_response stores nothing when the Cache-Control header of the
\* response contains no-store or no-cache, in any letter case of the header
\* name and of the directive; with any other Cache-Control value (such as
\* max-age=0), or without the header, it stores the entry.
C19_CacheControlSuppresses ==
    \A headers \in CM_Headers, response_data \in CC_Responses :
        LET cache_control == Lower(CacheControlOf(response_data))
            suppressed == \/ IsSubstring(V_no_store, cache_control)
                          \/ IsSubstring(V_no_cache, cache_control)
            cache_key == generate_cache_key("GET", T_x, headers, << >>)
        IN  cache_response("GET", T_x, headers, response_data, << >>)
               = IF suppressed THEN cache
                 ELSE DictSet(cache, cache_key,
                              [value |-> CacheData(response_data),
                               expires |-> now + CACHE_EXPIRATION])

\* the Cache-Control header of the response permits caching
PermitsCaching(response_data) ==
    LET cache_control == DictGet(response_data["headers"], "Cache-Control",
                                 << >>)
    IN  ~ (IsSubstring(V_no_store, cache_control)
           \/ IsSubstring(V_no_cache, cache_control))

\* C20: a forwarded GET response whose Cache-Control permits caching is
\* stored if and only if 200 <= status < 400 (399 is, 400 and 199 are
\* not): with a status in the range the request goes through the cache
\* store, which writes the entry; with another status it goes straight to
\* the reply; and no later step of the request changes the store.
C20_CachedIffStatusInRange ==
    [][\A c \in Conns :
        /\ (conn[c].pc = "forward" /\ Steps(c)
            /\ conn'[c].origin = "response" /\ conn[c].req.method = "GET")
           => /\ cache' = cache
              /\ conn'[c].pc
                    = (IF /\ 200 <= conn'[c].response_data["status_code"]
                          /\ conn'[c].response_data["status_code"] < 400
                       THEN "store" ELSE "send")
        /\ (conn[c].pc = "store" /\ Steps(c)
            /\ PermitsCaching(conn[c].response_data))
           => /\ ReqKey(c) \in DOMAIN cache'
              /\ StoredStatus(ReqKey(c))'
                    = conn[c].response_data["status_code"]
              /\ cache'[ReqKey(c)].expires = now + CACHE_EXPIRATION
              /\ conn'[c].pc = "send"
        /\ (conn[c].pc \in { "send", "close" } /\ Steps(c))
           => cache' = cache
    ]_vars

\* a response with status 399 has been stored and awaits its reply
C20_Witness ==
    \E c \in Conns :
        /\ conn[c].pc = "send"
        /\ conn[c].req = GET_x
        /\ conn[c].response_data["status_code"] = 399
        /\ ReqKey(c) \in DOMAIN cache
        /\ StoredStatus(ReqKey(c)) = 399

\* the admitted connections on which no handler has started: in the
\* request queue, held by a worker thread, or in the executor's work queue
Waiting ==
    { c \in Conns : conn[c].pc \in { "queued", "dequeued", "submitted" } }

\* C21: at every moment at most request_queue_size admitted connections
\* wait for a handler to start, and while that many wait the acceptor
\* admits no further connection to the queue.
C21_HandoffBounded ==
    [][/\ Cardinality(Waiting') <= request_queue_size
       /\ Cardinality(Waiting) >= request_queue_size
             => Len(request_queue') <= Len(request_queue)
    ]_vars

\* C22: at most thread_pool_size handlers execute at once, and the
\* acceptor is never held up by the handlers: it can accept whenever a
\* client connects, and it can enqueue whenever the request queue has room.
C22_PoolBoundedAcceptorFree ==
    /\ Cardinality(Handling) <= thread_pool_size
    /\ (running /\ acceptor.pc = "accept"
        /\ \E c \in Conns : conn[c].pc = "idle")
       => ENABLED (\E c \in Conns : Accept(c, "10.0.0.1", FALSE))
    /\ (acceptor.pc = "put" /\ Len(request_queue) < request_queue_size)
       => ENABLED Put
    /\ acceptor.pc = "incr" => ENABLED IncrActive

\* every pool thread is busy, one handler waits for its origin, and a
\* further connection has been enqueued behind it
C22_Witness ==
    /\ Cardinality(Handling) = thread_pool_size
    /\ \E c, d \in Conns :
          /\ conn[c].pc = "forward"
          /\ conn[d].pc = "queued"
          /\ c < d
    /\ acceptor.pc = "accept"

\* the number of whitespace-separated tokens of a line: the positions at
\* which a token begins
TokenCount(request_line) ==
    Cardinality({ i \in DOMAIN request_line :
                    /\ request_line[i] \notin Whitespace
                    /\ i = 1 \/ request_line[i - 1] \in Whitespace })

Reply400 == ErrorReply(400, "Bad Request")

\* C23: a request whose first line is not exactly three whitespace-
\* separated tokens is answered 400 and nothing else, with no counter, no
\* cache entry and no origin touched, and the handler's next step closes
\* the connection.
C23_MalformedIs400 ==
    [][\A c \in Conns :
        /\ (conn[c].pc = "recv" /\ Steps(c))
           => \A request_line \in RequestLines :
                 (/\ TokenCount(request_line) # 3
                  /\ conn'[c].req
                        = ParseRequest(request_line, EmptyDict, << >>))
                 => /\ conn'[c].sent = << Reply400 >>
                    /\ conn'[c].pc = "close"
                    /\ stats' = stats
                    /\ cache' = cache
                    /\ zsets' = zsets
                    /\ origin_requests' = origin_requests
        /\ (conn[c].pc = "close" /\ Steps(c))
           => /\ conn'[c].pc = "closed"
              /\ stats'.requests_total = stats.requests_total
              /\ stats'.request_methods = stats.request_methods
              /\ cache' = cache
              /\ origin_requests' = origin_requests
    ]_vars

\* a malformed request has been answered and awaits the close
C23_Witness ==
    \E c \in Conns :
        /\ conn[c].pc = "close"
        /\ conn[c].req.kind = "malformed"
        /\ conn[c].sent = << Reply400 >>
        /\ stats.requests_total = 0
        /\ origin_requests = 0

\* the positions of a handler in the order of the text of the program
HandlerRank ==
    [recv |-> 1, method |-> 2, stats |-> 3, stats_send |-> 4, lookup |-> 3,
     forward |-> 4, store |-> 5, send |-> 6, close |-> 7, closed |-> 8]

C25_HandlerEndsInClose ==
    /\ [][\A c \in Conns :
            /\ (Steps(c) /\ conn[c].pc \in HandlerPcs)
               => /\ stats'.active_connections
                        = stats.active_connections
                          - (IF conn'[c].pc = "closed" THEN 1 ELSE 0)
                  /\ conn'[c].pc = "closed" <=> conn[c].pc = "close"
            /\ conn[c].pc = "closed" => ~ Steps(c)
       ]_vars
    /\ \A c \in Conns :
          (conn[c].pc \in HandlerPcs) ~> (conn[c].pc = "closed")

\* the only connection was handled, its close() raised an error, and the
\* increment of the acceptor has been taken back
C25_Witness ==
    \E c \in Conns :
        /\ conn[c].pc = "closed"
        /\ conn[c].close_error
        /\ conn[c].rate_check = "ok"
        /\ \A d \in Conns \ { c } : conn[d].pc = "idle"
        /\ acceptor.pc = "accept"
        /\ stats.active_connections = 0

\* the seconds of calls that lie in the window that ends at second
\* current_time
InWindow(calls, current_time) ==
    { t \in calls :
        current_time - RATE_LIMIT_WINDOW < t /\ t <= current_time }

\* C26: is_rate_limited(ip) called at second now returns true exactly when
\* more than RATE_LIMIT_REQUESTS distinct seconds t with
\* now - RATE_LIMIT_WINDOW < t <= now saw a call for that ip, the current
\* call included.
C26_SlidingWindowCount ==
    [][(now' = now /\ returned'.call = "is_rate_limited")
        => returned'.result
              = (Cardinality(InWindow(
                                limiter_calls'[returned'.client_ip], now))
                    > RATE_LIMIT_REQUESTS)
    ]_vars

\* a client that was limited at second t and made no call during the
\* RATE_LIMIT_WINDOW seconds that followed has just been admitted
C26_Witness ==
    /\ returned.call = "is_rate_limited"
    /\ ~ returned.result
    /\ now \in limiter_calls[returned.client_ip]
    /\ \E t \in limiter_calls[returned.client_ip] :
          /\ t = now - RATE_LIMIT_WINDOW
          /\ Cardinality(InWindow(limiter_calls[returned.client_ip], t))
                > RATE_LIMIT_REQUESTS
          /\ \A u \in limiter_calls[returned.client_ip] : u <= t \/ u = now

\* C27: invalidate_cache(p) completes and deletes exactly the entries
\* whose stored url contains p, and invalidate_cache() completes and
\* deletes every entry, whatever the database holds.
C27_InvalidateExactly ==
    [][(/\ now' = now
        /\ returned'.call = "invalidate_cache"
        /\ << returned, cache, zsets >>' # << returned, cache, zsets >>)
        => /\ returned'.raised = "none"
           /\ IF returned'.url_pattern # << >>
              THEN cache' =
                     [k \in { x \in DOMAIN cache :
                                ~ IsSubstring(returned'.url_pattern,
                                              put_log[x]["url"]) }
                         |-> cache[k]]
              ELSE cache' = EmptyDict
    ]_vars

\* C28: an entry stored at second t is in the store, and served, only
\* before t + CACHE_EXPIRATION: the store step writes it with that expiry,
\* the passing of time removes exactly the entries whose expiry has come, a
\* GET is answered from the store when its entry is there and otherwise is
\* a miss that goes to the origin, and no step of a request removes an
\* entry.
C28_ServedUntilExpiry ==
    [][/\ \A k \in DOMAIN cache' :
            /\ now' < cache'[k].expires
            /\ cache'[k].expires <= now' + CACHE_EXPIRATION
       /\ now' # now
            => cache' = [k \in { x \in DOMAIN cache :
                                   cache[x].expires > now' } |-> cache[k]]
       /\ \A c \in Conns :
            Steps(c)
            => /\ \A k \in DOMAIN cache :
                    /\ k \in DOMAIN cache'
                    /\ k # ReqKey(c) => cache'[k] = cache[k]
               /\ conn[c].pc = "lookup"
                    => IF ReqKey(c) \in DOMAIN cache
                       THEN /\ conn'[c].pc = "close"
                            /\ conn'[c].sent
                                  = ResponseReplies(put_log[ReqKey(c)])
                            /\ stats'.cache_hits = stats.cache_hits + 1
                            /\ origin_requests' = origin_requests
                       ELSE /\ conn'[c].pc = "forward"
                            /\ conn'[c].sent = << >>
                            /\ stats'.cache_misses = stats.cache_misses + 1
               /\ conn[c].pc = "store"
                    => /\ ReqKey(c) \in DOMAIN cache'
                       /\ cache'[ReqKey(c)].expires = now + CACHE_EXPIRATION
    ]_vars

\* the entry of a GET expired, the same GET was a miss and went to the
\* origin, and its response has been stored again
C28_Witness ==
    \E c \in Conns :
        /\ conn[c].pc = "send"
        /\ conn[c].req = GET_x
        /\ now >= CACHE_EXPIRATION
        /\ ReqKey(c) \in DOMAIN cache
        /\ cache[ReqKey(c)].expires = now + CACHE_EXPIRATION
        /\ stats.cache_misses = 2
        /\ stats.cache_hits = 0
        /\ origin_requests = 2
        /\ \E d \in Conns : conn[d].pc = "closed" /\ conn[d].rate_check = "ok"

\* two characters that are the same letter, whatever their case
SameLetter(a, b) == a = b \/ LowerChar(a) = b \/ a = LowerChar(b)

\* rule occurs in url, letters compared without their case
OccursIgnoringCase(rule, url) ==
    \E i \in 0 .. (Len(url) - Len(rule)) :
        \A j \in 1 .. Len(rule) : SameLetter(url[i + j], rule[j])

\* C29: should_filter(url, headers) is true exactly when some non-empty
\* configured rule occurs in the URL, case ignored; so it is false for
\* every URL when there is no rule, and the headers play no part.
C29_FilterIffRuleOccurs ==
    returned.call = "should_filter"
    => returned.result
          = (\E i \in DOMAIN filter_rules :
                /\ filter_rules[i] # << >>
                /\ OccursIgnoringCase(filter_rules[i], returned.url))

\* a URL was filtered for a rule that occurs in it in another case, in a
\* request that carries headers
C29_Witness ==
    /\ returned.call = "should_filter"
    /\ returned.result
    /\ returned.headers # EmptyDict
    /\ \A i \in DOMAIN filter_rules :
          ~ IsSubstring(filter_rules[i], returned.url)


\* after running is set to false no connection is put on the queue
NoPutAfterStop ==
    [][~ running => Len(request_queue') <= Len(request_queue)]_vars

\* the accept loop and the worker loops end
LoopsTerminate ==
    (~ running) ~> (acceptor.pc = "stopped" /\ workers = 0)

\* a connection on the queue once running is false ends closed
WaitingClosed ==
    \A c \in Conns :
        (~ running /\ conn[c].pc = "queued") ~> (conn[c].pc = "closed")

\* a handler that has started ends at the close of its socket
StartedReachClose ==
    \A c \in Conns :
        (~ running /\ conn[c].pc \in HandlerPcs) ~> (conn[c].pc = "closed")

\* C30: after running is set to false the acceptor puts no further
\* connection on the queue, the accept loop and the worker loops end,
\* every connection still waiting on the queue is closed, and every
\* handler that had started runs to the close of its socket.
C30_ShutdownClosesAll ==
    /\ NoPutAfterStop
    /\ LoopsTerminate
    /\ WaitingClosed
    /\ StartedReachClose

\* C31: every connection returned by accept() is closed or is held by the
\* acceptor, the queue, a worker, the executor or a handler that will close
\* it; no interleaving and no store failure during the rate check leaves
\* an accepted socket that nobody holds and that was not closed.
C31_AcceptedSocketsClosed ==
    \A c \in Conns :
        conn[c].pc # "idle"
        => conn[c].pc \in { "accepted", "queued", "dequeued", "submitted",
                            "closed" } \cup HandlerPcs

\* C32: active_connections is never negative, and it is 0 whenever no
\* connection is queued or being handled and the server is running.
C32_ActiveConnectionsCounted ==
    /\ stats.active_connections >= 0
    /\ (running /\ \A c \in Conns : conn[c].pc \in { "idle", "closed" })
          => stats.active_connections = 0

\* the positions of a handler inside _forward_request
ForwardPcs == { "forward", "store", "send" }

C34_AtMostOneReply ==
    \A c \in Conns : Len(conn[c].sent) <= 1

\* the values of the headers of a request called name, whatever the letter
\* case of the name: none or one
HeaderValues(headers, name) ==
    { headers[h] : h \in { x \in DOMAIN headers : Lower(x) = name } }

\* two requests have the same target and the same accept, accept-language
\* and accept-encoding
SameView(r1, r2) ==
    /\ r1.path = r2.path
    /\ \A name \in { << "a", "c", "c", "e", "p", "t" >>,
                     << "a", "c", "c", "e", "p", "t", "-", "l", "a", "n",
                        "g", "u", "a", "g", "e" >>,
                     << "a", "c", "c", "e", "p", "t", "-", "e", "n", "c",
                        "o", "d", "i", "n", "g" >> } :
          HeaderValues(r1.headers, name) = HeaderValues(r2.headers, name)

KeyOf(r) == generate_cache_key(r.method, r.path, r.headers, r.body)

\* C35: the cache key of a GET depends only on the method, the target and
\* the accept, accept-language and accept-encoding headers (names compared
\* without case).  At the lookup of a GET r2, for every GET r1: the two keys
\* are equal exactly when r1 and r2 agree on the target and on those three
\* headers; if they agree and an entry is stored for r1, r2 is served that
\* stored response, whatever its other headers, its body, the client and
\* the origin chosen; if they disagree and the only entry is the one of r1,
\* r2 is forwarded.
C35_KeyProjection ==
    [][\A c \in Conns :
        (conn[c].pc = "lookup" /\ conn'[c].pc # "lookup")
        => \A r1 \in CK_Requests :
              LET r2 == conn[c].req
              IN  /\ (KeyOf(r1) = KeyOf(r2)) <=> SameView(r1, r2)
                  /\ (SameView(r1, r2) /\ KeyOf(r1) \in DOMAIN cache)
                     => /\ conn'[c].pc = "close"
                        /\ conn'[c].response_data["content"]
                              = put_log[KeyOf(r1)]["content"]
                        /\ conn'[c].response_data["url"]
                              = put_log[KeyOf(r1)]["url"]
                        /\ origin_requests' = origin_requests
                  /\ (~ SameView(r1, r2) /\ DOMAIN cache = { KeyOf(r1) })
                     => conn'[c].pc = "forward"
    ]_vars

\* a GET with a Host header and a body is answered from the entry stored
\* for a GET without either, with the response of the origin chosen then
C35_Witness ==
    \E c \in Conns :
        /\ conn[c].pc = "close"
        /\ conn[c].req.headers # EmptyDict
        /\ conn[c].req.body # << >>
        /\ conn[c].response_data # EmptyDict
        /\ origin_requests = 1
        /\ stats.cache_hits = 1

\* the seconds of the window that ends at current_time whose attempt was
\* admitted
AdmittedInWindow(calls, current_time) ==
    { t \in InWindow(calls, current_time) :
        Cardinality(InWindow(calls, t)) <= RATE_LIMIT_REQUESTS }

\* C36: an attempt that is_rate_limited rejects is recorded like an admitted
\* one: after every call the window of the client holds the current second
\* and its key lives RATE_LIMIT_WINDOW seconds more.  A client with
\* attempts, rejected ones included, in more than RATE_LIMIT_REQUESTS
\* distinct seconds of the last RATE_LIMIT_WINDOW seconds is limited, and it
\* is admitted only when that number is at most RATE_LIMIT_REQUESTS.
C36_RejectedAttemptsCount ==
    [][(now' = now /\ returned'.call = "is_rate_limited")
        => LET ip == returned'.client_ip
               attempts == InWindow(limiter_calls'[ip], now)
           IN  /\ zsets'[ip].members = attempts
               /\ zsets'[ip].expires = now + RATE_LIMIT_WINDOW
               /\ Cardinality(attempts) > RATE_LIMIT_REQUESTS
                  => returned'.result
               /\ ~ returned'.result
                  => Cardinality(attempts) <= RATE_LIMIT_REQUESTS
    ]_vars

\* a client limited although no more than RATE_LIMIT_REQUESTS attempts of
\* its window were admitted: it is the rejected attempts that keep it limited
C36_Witness ==
    /\ returned.call = "is_rate_limited"
    /\ returned.result
    /\ now \in limiter_calls[returned.client_ip]
    /\ now >= RATE_LIMIT_WINDOW
    /\ Cardinality(AdmittedInWindow(limiter_calls[returned.client_ip], now)
                      \ { now }) < RATE_LIMIT_REQUESTS
    /\ \A t \in (now - RATE_LIMIT_WINDOW) .. now :
          t \in limiter_calls[returned.client_ip]


\* C37: invalidate_cache, with or without a pattern, leaves the rate-limit
\* window of every client as it was, and so every later decision of
\* is_rate_limited is the one the attempts of the client in the last
\* RATE_LIMIT_WINDOW seconds give, whether or not the cache was invalidated
\* in between.
C37_InvalidationKeepsRateWindows ==
    [][/\ (now' = now /\ returned'.call = "invalidate_cache")
          => zsets' = zsets
       /\ (now' = now /\ returned'.call = "is_rate_limited")
          => returned'.result
             = (Cardinality(InWindow(limiter_calls'[returned'.client_ip],
                                     now))
                > RATE_LIMIT_REQUESTS)
    ]_vars

=============================================================================
